---- MODULE Spec2Model ----
(***************************************************************************)
(* Rugby-Map: territory partitioning of make_tier_maps.py, followed by the *)
(* geocoder of geocode_addresses.py and the address fetcher of             *)
(* fetch_addresses.py, each with its own variables and specification.      *)
(*                                                                         *)
(* Geometry is abstracted to one dimension.  A region is an open interval  *)
(* (lo, hi) of a line; its area is represented by the odd integers inside  *)
(* it (sample points), team coordinates are multiples of four and region   *)
(* boundaries are 2 mod 4, so that no sample point and no team lies on a   *)
(* boundary and no sample point is equidistant from two different team     *)
(* coordinates.  A Python dict is a sequence of <<key, value>> pairs in    *)
(* insertion order, a Python list is a sequence, None is the string        *)
(* "None".  The variable boundaries holds the feature lists of the files   *)
(* boundaries/*.geojson, one list per level, in file order.  The variable  *)
(* hash_order is the order in which the running process iterates over a    *)
(* set of league names (the string hashes of the process).  The variable   *)
(* geos_rejects holds the names of the regions whose geometry the geometry *)
(* library does not accept as the operand of an intersection: the call     *)
(* raises GEOSException.                                                   *)
(***************************************************************************)
EXTENDS Integers, Sequences, FiniteSets, TLC

VARIABLES boundaries, teams_by_tier, itl_hierarchy, region_to_teams, cur,
          region_colors, league_geometries, hash_order, geos_rejects, pc,
          voronoi_teams, voronoi_boundary, voronoi_result,
          geocode_cache, _address_cache_dirty, cache_file, _cache_lock,
          address_data, api_retries, futures_to_idx, force, address_dirty,
          completed,
          club_cache, club_cache_file, league_files, output_files, file_idx,
          futures_to_club, club_dependents, team_results, max_workers

\* the arguments and the result of one call of create_bounded_voronoi
voronoi_vars == <<voronoi_teams, voronoi_boundary, voronoi_result>>

\* the state of geocode_addresses.py but for the position of the main thread
geocode_vars == <<geocode_cache, _address_cache_dirty, cache_file, _cache_lock,
                  address_data, api_retries, futures_to_idx, force, address_dirty,
                  completed>>

\* the state of fetch_addresses.py but for the position of the main thread
fetch_vars == <<club_cache, club_cache_file, league_files, output_files, file_idx,
                futures_to_club, club_dependents, team_results, max_workers>>

\* the state of make_tier_maps.py but for the position of the script
map_vars == <<boundaries, teams_by_tier, itl_hierarchy, region_to_teams, cur,
              region_colors, league_geometries, hash_order, geos_rejects>>

\* what a run of geocode_addresses.py leaves alone
beside_geocode == <<map_vars, voronoi_vars, fetch_vars>>

\* what a run of fetch_addresses.py leaves alone
beside_fetch == <<map_vars, voronoi_vars, geocode_vars>>

\* what a run of make_tier_maps.py leaves alone
other_vars == <<voronoi_vars, geocode_vars, fetch_vars>>

vars == <<map_vars, pc, other_vars>>

None == "None"

\* Largest number of teams in the tier under study.
MaxTeams == 3

(***************************************************************************)
(* Python dict and list helpers                                            *)
(***************************************************************************)
Has(d, k) == \E i \in 1..Len(d) : d[i][1] = k

Get(d, k, dflt) ==
    IF Has(d, k) THEN d[CHOOSE i \in 1..Len(d) : d[i][1] = k][2] ELSE dflt

Put(d, k, v) ==
    IF Has(d, k)
    THEN [i \in 1..Len(d) |-> IF d[i][1] = k THEN <<k, v>> ELSE d[i]]
    ELSE Append(d, <<k, v>>)

\* d.setdefault(k, []).append(v), also "if k not in d: d[k] = []; d[k].append(v)"
AppendTo(d, k, v) == Put(d, k, Append(Get(d, k, <<>>), v))

Keys(d) == [i \in 1..Len(d) |-> d[i][1]]

InList(x, s) == \E i \in 1..Len(s) : s[i] = x

RECURSIVE Filter(_, _)
\* [t for t in s if t in keep]
Filter(s, keep) ==
    IF s = <<>> THEN <<>>
    ELSE IF InList(Head(s), keep) THEN <<Head(s)>> \o Filter(Tail(s), keep)
    ELSE Filter(Tail(s), keep)

\* {t["league"] for t in s}
LeaguesOf(s) == {s[i].league : i \in 1..Len(s)}

(***************************************************************************)
(* The boundary datasets (boundaries/*.geojson): one feature list per      *)
(* level, in file order.  S1 carries a code whose prefix matches no ITL1   *)
(* code; ITL3 regions B, C and D have no LAD data and LAD L2 has no ward   *)
(* data.                                                                   *)
(***************************************************************************)
itl0_data == << [name |-> "England", code |-> <<"E">>, lo |-> 2, hi |-> 42] >>

itl1_data ==
    << [name |-> "N", code |-> <<"T", "L", "C">>, lo |-> 2, hi |-> 38],
       [name |-> "S", code |-> <<"T", "L", "D">>, lo |-> 38, hi |-> 42] >>

itl2_data ==
    << [name |-> "N1", code |-> <<"T", "L", "C", "1">>, lo |-> 2, hi |-> 30],
       [name |-> "N2", code |-> <<"T", "L", "C", "2">>, lo |-> 30, hi |-> 38],
       [name |-> "S1", code |-> <<"T", "L", "X", "1">>, lo |-> 38, hi |-> 42] >>

itl3_data ==
    << [name |-> "A", code |-> <<"T", "L", "C", "1", "1">>, lo |-> 2, hi |-> 26],
       [name |-> "B", code |-> <<"T", "L", "C", "1", "2">>, lo |-> 26, hi |-> 30],
       [name |-> "C", code |-> <<"T", "L", "C", "2", "1">>, lo |-> 30, hi |-> 38],
       [name |-> "D", code |-> <<"T", "L", "X", "1", "1">>, lo |-> 38, hi |-> 42] >>

lad_data ==
    << [name |-> "L1", code |-> <<"E", "1">>, lo |-> 2, hi |-> 18],
       [name |-> "L2", code |-> <<"E", "2">>, lo |-> 18, hi |-> 26] >>

ward_data ==
    << [name |-> "W1", code |-> <<"W", "1">>, lo |-> 2, hi |-> 14],
       [name |-> "W2", code |-> <<"W", "2">>, lo |-> 14, hi |-> 18] >>

\* Coordinates a geocoded team can have.
TeamPos == {4, 8, 12, 16, 20, 24, 28, 32, 36, 40}

Leagues == {"Blue", "Red"}

TierNames == {"Premiership", "National League 2", "Counties 1"}

\* A second tier of the same season, present in teams_by_tier and in the
\* RegionToTeams index whatever the tier under study is.
OtherTier == "Counties 5"

OtherTeams ==
    << [name |-> 0, league |-> "Green", pos |-> 4, tier |-> OtherTier,
        itl1 |-> None, itl2 |-> None, itl3 |-> None] >>

(***************************************************************************)
(* Region Store                                                            *)
(***************************************************************************)
\* shape(feat["geometry"]): the area of a region as its set of sample points
Geom(r) == {p \in r.lo..r.hi : p % 2 = 1}

\* geom.centroid
Centroid(r) == (r.lo + r.hi) \div 2

\* region["prepared"].contains(Point(x)): boundary points are not contained
Contains(r, x) == r.lo < x /\ x < r.hi

\* centroid.distance(Point(x))
Distance(c, x) == IF c >= x THEN c - x ELSE x - c

\* The dict name -> region built from one feature list.
ParseRegions(data) == [i \in 1..Len(data) |-> <<data[i].name, data[i]>>]

\* region lookup by name
Region(regions, name) == Get(regions, name, None)

(***************************************************************************)
(* Hierarchy Builder: load_itl_hierarchy                                   *)
(***************************************************************************)
RECURSIVE ByCode(_, _)
\* {r["code"]: r["name"] for r in regions.values() if r["code"]}
ByCode(regions, acc) ==
    IF regions = <<>> THEN acc
    ELSE LET r == Head(regions)[2]
         IN  ByCode(Tail(regions),
                    IF r.code # <<>> THEN Put(acc, r.code, r.name) ELSE acc)

RECURSIVE CodeParents_Unchecked(_, _, _, _)
\* CodeParents that enters every child with a code of n characters or more,
\* whether or not the prefix is the code of a parent
CodeParents_Unchecked(children, n, parent_by_code, acc) ==
    IF children = <<>> THEN acc
    ELSE LET c == Head(children)[2]
             resolved == /\ c.code # <<>>
                         /\ Len(c.code) >= n
         IN  CodeParents_Unchecked(Tail(children), n, parent_by_code,
                 IF resolved
                 THEN Put(acc, c.name, Get(parent_by_code, SubSeq(c.code, 1, n), None))
                 ELSE acc)

RECURSIVE CodeParents(_, _, _, _)
\* child name -> parent name, the parent code being the first n characters
\* of the child's code; a child whose prefix names no parent gets no entry
CodeParents(children, n, parent_by_code, acc) ==
    IF children = <<>> THEN acc
    ELSE LET c == Head(children)[2]
             resolved == /\ c.code # <<>>
                         /\ Len(c.code) >= n
                         /\ Has(parent_by_code, SubSeq(c.code, 1, n))
         IN  CodeParents(Tail(children), n, parent_by_code,
                 IF resolved
                 THEN Put(acc, c.name, Get(parent_by_code, SubSeq(c.code, 1, n), None))
                 ELSE acc)

RECURSIVE ReverseMap(_, _)
\* parent name -> [child names], in the order of the child -> parent dict
ReverseMap(child_to_parent, acc) ==
    IF child_to_parent = <<>> THEN acc
    ELSE ReverseMap(Tail(child_to_parent),
                    AppendTo(acc, Head(child_to_parent)[2], Head(child_to_parent)[1]))

RECURSIVE FirstContaining(_, _, _)
\* for name in names: if regions[name]["prepared"].contains(x): ...; break
FirstContaining(names, regions, x) ==
    IF names = <<>> THEN None
    ELSE IF Contains(Region(regions, Head(names)), x) THEN Head(names)
    ELSE FirstContaining(Tail(names), regions, x)

\* Locate that goes on to the finer levels after a level failed
Locate_Continue(h, x) ==
    LET found_itl1 == FirstContaining(Keys(h.itl1_regions), h.itl1_regions, x)
        found_itl2 == FirstContaining(IF found_itl1 = None THEN Keys(h.itl2_regions)
                                      ELSE Get(h.itl1_to_itl2s, found_itl1, <<>>),
                                      h.itl2_regions, x)
        found_itl3 == FirstContaining(IF found_itl2 = None THEN Keys(h.itl3_regions)
                                      ELSE Get(h.itl2_to_itl3s, found_itl2, <<>>),
                                      h.itl3_regions, x)
    IN  [itl1 |-> found_itl1, itl2 |-> found_itl2, itl3 |-> found_itl3]

\* Locate that tests every region of a level, not the children only
Locate_AnyRegion(h, x) ==
    LET found_itl1 == FirstContaining(Keys(h.itl1_regions), h.itl1_regions, x)
        found_itl2 == IF found_itl1 = None THEN None
                      ELSE FirstContaining(Keys(h.itl2_regions), h.itl2_regions, x)
        found_itl3 == IF found_itl2 = None THEN None
                      ELSE FirstContaining(Keys(h.itl3_regions), h.itl3_regions, x)
    IN  [itl1 |-> found_itl1, itl2 |-> found_itl2, itl3 |-> found_itl3]

\* The three-step descent ITL1 -> ITL2 -> ITL3 for one point; a level is
\* None when the level above is None or no candidate contains the point.
Locate(h, x) ==
    LET found_itl1 == FirstContaining(Keys(h.itl1_regions), h.itl1_regions, x)
        found_itl2 == IF found_itl1 = None THEN None
                      ELSE FirstContaining(Get(h.itl1_to_itl2s, found_itl1, <<>>),
                                           h.itl2_regions, x)
        found_itl3 == IF found_itl2 = None THEN None
                      ELSE FirstContaining(Get(h.itl2_to_itl3s, found_itl2, <<>>),
                                           h.itl3_regions, x)
    IN  [itl1 |-> found_itl1, itl2 |-> found_itl2, itl3 |-> found_itl3]

RECURSIVE AssignLads(_, _, _)
\* lad_to_itl3 by the centroid of each LAD
AssignLads(lads, h, acc) ==
    IF lads = <<>> THEN acc
    ELSE LET lad == Head(lads)[2]
             itl3_name == Locate(h, Centroid(lad)).itl3
         IN  AssignLads(Tail(lads), h,
                        IF itl3_name # None THEN Put(acc, lad.name, itl3_name) ELSE acc)

RECURSIVE AssignWards(_, _, _, _)
\* ward_to_lad by the centroid of each ward, through the ITL3 that holds it
AssignWards(wards, h, itl3_to_lads, acc) ==
    IF wards = <<>> THEN acc
    ELSE LET ward == Head(wards)[2]
             found_itl3 == Locate(h, Centroid(ward)).itl3
             lad_name == IF found_itl3 = None THEN None
                         ELSE FirstContaining(Get(itl3_to_lads, found_itl3, <<>>),
                                              h.lad_regions, Centroid(ward))
         IN  AssignWards(Tail(wards), h, itl3_to_lads,
                         IF lad_name # None THEN Put(acc, ward.name, lad_name) ELSE acc)

load_itl_hierarchy(files) ==
    LET itl3_regions == ParseRegions(files.itl3)
        itl2_regions == ParseRegions(files.itl2)
        itl1_regions == ParseRegions(files.itl1)
        itl0_regions == ParseRegions(files.itl0)
        lad_regions == ParseRegions(files.lad)
        ward_regions == ParseRegions(files.ward)
        itl1_by_code == ByCode(itl1_regions, <<>>)
        itl2_by_code == ByCode(itl2_regions, <<>>)
        itl3_to_itl2 == CodeParents(itl3_regions, 4, itl2_by_code, <<>>)
        itl2_to_itl1 == CodeParents(itl2_regions, 3, itl1_by_code, <<>>)
        itl1_to_itl2s == ReverseMap(itl2_to_itl1, <<>>)
        itl2_to_itl3s == ReverseMap(itl3_to_itl2, <<>>)
        itl == [itl1_regions |-> itl1_regions, itl2_regions |-> itl2_regions,
                itl3_regions |-> itl3_regions, lad_regions |-> lad_regions,
                itl1_to_itl2s |-> itl1_to_itl2s, itl2_to_itl3s |-> itl2_to_itl3s]
        lad_to_itl3 == AssignLads(lad_regions, itl, <<>>)
        itl3_to_lads == ReverseMap(lad_to_itl3, <<>>)
        ward_to_lad == AssignWards(ward_regions, itl, itl3_to_lads, <<>>)
        lad_to_wards == ReverseMap(ward_to_lad, <<>>)
    IN  [itl3_regions |-> itl3_regions, itl2_regions |-> itl2_regions,
         itl1_regions |-> itl1_regions, itl0_regions |-> itl0_regions,
         lad_regions |-> lad_regions, ward_regions |-> ward_regions,
         itl3_to_itl2 |-> itl3_to_itl2, itl2_to_itl1 |-> itl2_to_itl1,
         lad_to_itl3 |-> lad_to_itl3, ward_to_lad |-> ward_to_lad,
         itl1_to_itl2s |-> itl1_to_itl2s, itl2_to_itl3s |-> itl2_to_itl3s,
         itl3_to_lads |-> itl3_to_lads, lad_to_wards |-> lad_to_wards]

(***************************************************************************)
(* Point Locator: assign_teams_to_itl_regions                              *)
(***************************************************************************)
RECURSIVE AllTeams(_)
\* the order of "for _, teams in teams_by_tier.items(): for team in teams"
AllTeams(by_tier) ==
    IF by_tier = <<>> THEN <<>> ELSE Head(by_tier)[2] \o AllTeams(Tail(by_tier))

\* the team dict after its turn of the loop: the three fields are reset and
\* then set for every level that was found
LocatedTeam(t, h) ==
    LET loc == Locate(h, t.pos)
    IN  [t EXCEPT !.itl1 = loc.itl1, !.itl2 = loc.itl2, !.itl3 = loc.itl3]

\* teams_by_tier after the call: the team dicts are updated in place
LocatedTiers(by_tier, h) ==
    [i \in 1..Len(by_tier) |->
        <<by_tier[i][1],
          [j \in 1..Len(by_tier[i][2]) |-> LocatedTeam(by_tier[i][2][j], h)]>>]

RECURSIVE AssignLoop_OnlyComplete(_, _, _)
\* AssignLoop that enters a team only when all three levels were found
AssignLoop_OnlyComplete(all, h, acc) ==
    IF all = <<>> THEN acc
    ELSE LET team == LocatedTeam(Head(all), h)
             loc == Locate(h, team.pos)
             r1 == IF loc.itl3 # None THEN AppendTo(acc.itl1, loc.itl1, team) ELSE acc.itl1
             r2 == IF loc.itl3 # None THEN AppendTo(acc.itl2, loc.itl2, team) ELSE acc.itl2
             r3 == IF loc.itl3 # None THEN AppendTo(acc.itl3, loc.itl3, team) ELSE acc.itl3
         IN  AssignLoop_OnlyComplete(Tail(all), h, [itl1 |-> r1, itl2 |-> r2, itl3 |-> r3])

RECURSIVE AssignLoop(_, _, _)
\* the reverse index; its lists hold the team dicts themselves
AssignLoop(all, h, acc) ==
    IF all = <<>> THEN acc
    ELSE LET team == LocatedTeam(Head(all), h)
             loc == Locate(h, team.pos)
             r1 == IF loc.itl1 # None THEN AppendTo(acc.itl1, loc.itl1, team) ELSE acc.itl1
             r2 == IF loc.itl2 # None THEN AppendTo(acc.itl2, loc.itl2, team) ELSE acc.itl2
             r3 == IF loc.itl3 # None THEN AppendTo(acc.itl3, loc.itl3, team) ELSE acc.itl3
         IN  AssignLoop(Tail(all), h, [itl1 |-> r1, itl2 |-> r2, itl3 |-> r3])

assign_teams_to_itl_regions(by_tier, h) ==
    AssignLoop(AllTeams(by_tier), h, [itl1 |-> <<>>, itl2 |-> <<>>, itl3 |-> <<>>])

(***************************************************************************)
(* Territory Partitioner: color_regions_by_league                          *)
(***************************************************************************)
\* leagues.pop() / next(iter(leagues)): the first league of the set in the
\* iteration order of the process
TheLeague(leagues) ==
    hash_order[CHOOSE i \in 1..Len(hash_order) :
                   /\ hash_order[i] \in leagues
                   /\ \A j \in 1..(i - 1) : hash_order[j] \notin leagues]

\* NationalTiers without the Premiership
NationalTiers_NoPremiership ==
    {"Championship", "National League 1", "Premiership Women's"}

NationalTiers ==
    {"Premiership", "Championship", "National League 1", "Premiership Women's"}

\* BiggerTiers without National League 2
BiggerTiers_NoNationalLeague2 == {"Championship 1", "Championship 2"}

BiggerTiers == {"National League 2", "Championship 1", "Championship 2"}

RECURSIVE Itl3Ownership_TwoTeams(_, _, _)
\* Itl3Ownership that takes a region for owned only from two teams on
Itl3Ownership_TwoTeams(items, teams, acc) ==
    IF items = <<>> THEN acc
    ELSE LET itl3_name == Head(items)[1]
             tier_teams == Filter(Head(items)[2], teams)
             leagues == LeaguesOf(tier_teams)
         IN  Itl3Ownership_TwoTeams(Tail(items), teams,
                 IF Len(tier_teams) > 1 /\ Cardinality(leagues) = 1
                 THEN Put(acc, itl3_name, TheLeague(leagues))
                 ELSE acc)

RECURSIVE Itl3Ownership_AnyLeagues(_, _, _)
\* Itl3Ownership that takes a league from the set however many it holds
Itl3Ownership_AnyLeagues(items, teams, acc) ==
    IF items = <<>> THEN acc
    ELSE LET itl3_name == Head(items)[1]
             tier_teams == Filter(Head(items)[2], teams)
             leagues == LeaguesOf(tier_teams)
         IN  Itl3Ownership_AnyLeagues(Tail(items), teams,
                 IF Len(tier_teams) > 0
                 THEN Put(acc, itl3_name, TheLeague(leagues))
                 ELSE acc)

RECURSIVE Itl3Ownership_AllTiers(_, _, _)
\* Itl3Ownership that counts the teams of every tier found in the index
Itl3Ownership_AllTiers(items, teams, acc) ==
    IF items = <<>> THEN acc
    ELSE LET itl3_name == Head(items)[1]
             tier_teams == Head(items)[2]
             leagues == LeaguesOf(tier_teams)
         IN  Itl3Ownership_AllTiers(Tail(items), teams,
                 IF Len(tier_teams) > 0 /\ Cardinality(leagues) = 1
                 THEN Put(acc, itl3_name, TheLeague(leagues))
                 ELSE acc)

RECURSIVE Itl3Ownership_FirstTeam(_, _, _)
\* Itl3Ownership that gives the region to the league of its first team
Itl3Ownership_FirstTeam(items, teams, acc) ==
    IF items = <<>> THEN acc
    ELSE LET itl3_name == Head(items)[1]
             tier_teams == Filter(Head(items)[2], teams)
         IN  Itl3Ownership_FirstTeam(Tail(items), teams,
                 IF Len(tier_teams) > 0
                 THEN Put(acc, itl3_name, tier_teams[1].league)
                 ELSE acc)

RECURSIVE Itl3Ownership(_, _, _)
\* Step 1: an ITL3 is owned when its teams of the tier are of one league
Itl3Ownership(items, teams, acc) ==
    IF items = <<>> THEN acc
    ELSE LET itl3_name == Head(items)[1]
             tier_teams == Filter(Head(items)[2], teams)
             leagues == LeaguesOf(tier_teams)
         IN  Itl3Ownership(Tail(items), teams,
                 IF Len(tier_teams) > 0 /\ Cardinality(leagues) = 1
                 THEN Put(acc, itl3_name, TheLeague(leagues))
                 ELSE acc)

RECURSIVE LeagueCounts(_, _, _)
\* league -> number of the children that the league owns
LeagueCounts(children, ownership, acc) ==
    IF children = <<>> THEN acc
    ELSE LET league == Get(ownership, Head(children), None)
         IN  LeagueCounts(Tail(children), ownership,
                 IF Has(ownership, Head(children))
                 THEN Put(acc, league, Get(acc, league, 0) + 1)
                 ELSE acc)

RECURSIVE FirstOwner_AnyCount(_, _)
\* FirstOwner that is content with one owned child among several
FirstOwner_AnyCount(counts, n) ==
    IF counts = <<>> THEN None
    ELSE IF Head(counts)[2] >= 1 THEN Head(counts)[1]
    ELSE FirstOwner_AnyCount(Tail(counts), n)

RECURSIVE FirstOwner(_, _)
\* for league, count in counts.items(): if count >= 2 or (count == 1 and
\* n == 1): ...; break
FirstOwner(counts, n) ==
    IF counts = <<>> THEN None
    ELSE IF Head(counts)[2] >= 2 \/ (Head(counts)[2] = 1 /\ n = 1) THEN Head(counts)[1]
    ELSE FirstOwner(Tail(counts), n)

RECURSIVE OwnByChildren_ManyLeagues(_, _, _, _, _, _)
\* OwnByChildren that does not pass over a region with teams of several
\* leagues
OwnByChildren_ManyLeagues(items, teams, do_bigger_shading, to_children, child_ownership, acc) ==
    IF items = <<>> THEN acc
    ELSE LET name == Head(items)[1]
             tier_teams == Filter(Head(items)[2], teams)
             leagues == LeaguesOf(tier_teams)
             children == Get(to_children, name, <<>>)
             owner == FirstOwner(LeagueCounts(children, child_ownership, <<>>),
                                 Len(children))
             next == IF Len(tier_teams) = 0 THEN acc
                     ELSE IF do_bigger_shading THEN Put(acc, name, TheLeague(leagues))
                     ELSE IF owner # None THEN Put(acc, name, owner)
                     ELSE acc
         IN  OwnByChildren_ManyLeagues(Tail(items), teams, do_bigger_shading, to_children,
                                       child_ownership, next)

RECURSIVE OwnByChildren(_, _, _, _, _, _)
\* Steps 2 and 3: a region with teams of one league only is owned under
\* bigger shading, or by the league that owns two of its children or its
\* only child
OwnByChildren(items, teams, do_bigger_shading, to_children, child_ownership, acc) ==
    IF items = <<>> THEN acc
    ELSE LET name == Head(items)[1]
             tier_teams == Filter(Head(items)[2], teams)
             leagues == LeaguesOf(tier_teams)
             children == Get(to_children, name, <<>>)
             owner == FirstOwner(LeagueCounts(children, child_ownership, <<>>),
                                 Len(children))
             next == IF Len(tier_teams) = 0 THEN acc
                     ELSE IF Cardinality(leagues) > 1 THEN acc
                     ELSE IF do_bigger_shading THEN Put(acc, name, TheLeague(leagues))
                     ELSE IF owner # None THEN Put(acc, name, owner)
                     ELSE acc
         IN  OwnByChildren(Tail(items), teams, do_bigger_shading, to_children,
                           child_ownership, next)

RECURSIVE PromoteItl2(_, _, _, _, _)
\* Step 2.5: an unowned ITL2 with teams of one league, an ITL3 owned by that
\* league and a sibling ITL2 owned by that league becomes owned; the
\* ownership dict is updated while the loop runs
PromoteItl2(items, teams, h, itl3_ownership, itl2_ownership) ==
    IF items = <<>> THEN itl2_ownership
    ELSE LET itl2_name == Head(items)[1]
             tier_teams == Filter(Head(items)[2], teams)
             leagues == LeaguesOf(tier_teams)
             league == TheLeague(leagues)
             itl3s_in_itl2 == Get(h.itl2_to_itl3s, itl2_name, <<>>)
             has_owned_itl3 ==
                 \E i \in 1..Len(itl3s_in_itl2) :
                     /\ Has(itl3_ownership, itl3s_in_itl2[i])
                     /\ Get(itl3_ownership, itl3s_in_itl2[i], None) = league
             parent_itl1 == Get(h.itl2_to_itl1, itl2_name, None)
             itl2s_in_itl1 == Get(h.itl1_to_itl2s, parent_itl1, <<>>)
             sibling_itl2_owned ==
                 \E i \in 1..Len(itl2s_in_itl1) :
                     /\ itl2s_in_itl1[i] # itl2_name
                     /\ Has(itl2_ownership, itl2s_in_itl1[i])
                     /\ Get(itl2_ownership, itl2s_in_itl1[i], None) = league
             promoted == /\ ~Has(itl2_ownership, itl2_name)
                         /\ Len(tier_teams) # 0
                         /\ Cardinality(leagues) = 1
                         /\ has_owned_itl3
                         /\ parent_itl1 # None
                         /\ sibling_itl2_owned
         IN  PromoteItl2(Tail(items), teams, h, itl3_ownership,
                 IF promoted THEN Put(itl2_ownership, itl2_name, league)
                 ELSE itl2_ownership)

RECURSIVE UnderUnowned(_, _, _, _)
\* the entries of an ownership dict whose parent region is not owned
UnderUnowned(ownership, to_parent, parent_ownership, acc) ==
    IF ownership = <<>> THEN acc
    ELSE LET parent == Get(to_parent, Head(ownership)[1], None)
         IN  UnderUnowned(Tail(ownership), to_parent, parent_ownership,
                 IF parent # None /\ Has(parent_ownership, parent) THEN acc
                 ELSE Put(acc, Head(ownership)[1], Head(ownership)[2]))

\* AncestorOwned that looks at the grandparent ITL1 only
AncestorOwned_GrandparentOnly(itl3_name, h, itl2_ownership, itl1_ownership) ==
    LET parent_itl2 == Get(h.itl3_to_itl2, itl3_name, None)
        grandparent_itl1 == IF parent_itl2 # None
                            THEN Get(h.itl2_to_itl1, parent_itl2, None) ELSE None
    IN  grandparent_itl1 # None /\ Has(itl1_ownership, grandparent_itl1)

\* "parent ITL2 or grandparent ITL1 is owned", as tested for an ITL3
AncestorOwned(itl3_name, h, itl2_ownership, itl1_ownership) ==
    LET parent_itl2 == Get(h.itl3_to_itl2, itl3_name, None)
        grandparent_itl1 == IF parent_itl2 # None
                            THEN Get(h.itl2_to_itl1, parent_itl2, None) ELSE None
    IN  \/ parent_itl2 # None /\ Has(itl2_ownership, parent_itl2)
        \/ grandparent_itl1 # None /\ Has(itl1_ownership, grandparent_itl1)

RECURSIVE Itl3Leagues(_, _, _, _, _)
Itl3Leagues(ownership, h, itl2_ownership, itl1_ownership, acc) ==
    IF ownership = <<>> THEN acc
    ELSE Itl3Leagues(Tail(ownership), h, itl2_ownership, itl1_ownership,
             IF AncestorOwned(Head(ownership)[1], h, itl2_ownership, itl1_ownership)
             THEN acc
             ELSE Put(acc, Head(ownership)[1], Head(ownership)[2]))

RECURSIVE Itl3MultiLeague(_, _, _, _, _, _, _)
\* the ITL3 regions with teams of two or more leagues, for LAD splitting
Itl3MultiLeague(items, teams, h, itl3_ownership, itl2_ownership, itl1_ownership, acc) ==
    IF items = <<>> THEN acc
    ELSE LET itl3_name == Head(items)[1]
             tier_teams == Filter(Head(items)[2], teams)
             listed == /\ ~Has(itl3_ownership, itl3_name)
                       /\ ~AncestorOwned(itl3_name, h, itl2_ownership, itl1_ownership)
                       /\ Len(tier_teams) >= 2
                       /\ Cardinality(LeaguesOf(tier_teams)) >= 2
         IN  Itl3MultiLeague(Tail(items), teams, h, itl3_ownership, itl2_ownership,
                             itl1_ownership,
                             IF listed THEN Append(acc, itl3_name) ELSE acc)

color_regions_by_league(teams, rtt, h) ==
    LET all_leagues == LeaguesOf(teams)
        tier_name == IF teams # <<>> THEN teams[1].tier ELSE None
        do_national_shading == tier_name \in NationalTiers
        do_bigger_shading == tier_name \in BiggerTiers
        itl3_ownership == Itl3Ownership(rtt.itl3, teams, <<>>)
        itl2_step2 == OwnByChildren(rtt.itl2, teams, do_bigger_shading,
                                    h.itl2_to_itl3s, itl3_ownership, <<>>)
        itl2_ownership == PromoteItl2(rtt.itl2, teams, h, itl3_ownership, itl2_step2)
        itl1_ownership == OwnByChildren(rtt.itl1, teams, do_bigger_shading,
                                        h.itl1_to_itl2s, itl2_ownership, <<>>)
    IN  IF do_national_shading /\ Cardinality(all_leagues) = 1
        THEN [itl0 |-> << <<"England", TheLeague(all_leagues)>> >>,
              itl1 |-> <<>>, itl2 |-> <<>>, itl3 |-> <<>>,
              itl3_multi_league |-> <<>>]
        ELSE [itl0 |-> <<>>,
              itl1 |-> itl1_ownership,
              itl2 |-> UnderUnowned(itl2_ownership, h.itl2_to_itl1, itl1_ownership, <<>>),
              itl3 |-> Itl3Leagues(itl3_ownership, h, itl2_ownership, itl1_ownership, <<>>),
              itl3_multi_league |->
                  Itl3MultiLeague(rtt.itl3, teams, h, itl3_ownership, itl2_ownership,
                                  itl1_ownership, <<>>)]

(***************************************************************************)
(* Bounded Voronoi Splitter: create_bounded_voronoi                        *)
(*                                                                         *)
(* A piece is the dict {"geom", "league"} of the source (the colour is     *)
(* left out) with two history fields: src, the region the piece was cut    *)
(* from, and kind, the branch that produced it.                            *)
(***************************************************************************)
Max(a, b) == IF a >= b THEN a ELSE b

\* squared Euclidean distance of two points <<longitude, latitude>>
Dist2(p, q) == (p[1] - q[1]) * (p[1] - q[1]) + (p[2] - q[2]) * (p[2] - q[2])

\* Point(t["longitude"], t["latitude"]): every team lies on the line
TeamPoint(t) == <<t.pos, 0>>

\* CornerPoints without the padding: the synthetic sites sit on the box
CornerPoints_NoPadding(boundary) ==
    { <<boundary.lo, 0>>, <<boundary.hi, 0>> }

\* the four synthetic sites outside the bounding box of the region
CornerPoints(boundary) ==
    LET width == boundary.hi - boundary.lo
        height == 0
        padding == Max(width, height) * 2
    IN  { <<boundary.lo - padding, 0 - padding>>,
          <<boundary.hi + padding, 0 - padding>>,
          <<boundary.hi + padding, 0 + padding>>,
          <<boundary.lo - padding, 0 + padding>> }

\* VoronoiCell that bounds a cell by the corner sites only
VoronoiCell_IgnoreSites(i, teams, corners, universe) ==
    {x \in universe :
        \A c \in corners :
            Dist2(<<x, 0>>, TeamPoint(teams[i])) <= Dist2(<<x, 0>>, c)}

\* Voronoi(all_points): the cell of site number i, the sample points that
\* are at least as near to it as to every other site
VoronoiCell(i, teams, corners, universe) ==
    {x \in universe :
        /\ \A j \in 1..Len(teams) :
               Dist2(<<x, 0>>, TeamPoint(teams[i])) <= Dist2(<<x, 0>>, TeamPoint(teams[j]))
        /\ \A c \in corners :
               Dist2(<<x, 0>>, TeamPoint(teams[i])) <= Dist2(<<x, 0>>, c)}

RECURSIVE TeamCells_NoClip(_, _, _, _)
\* TeamCells that keeps the cells as they are, not cut to the boundary
TeamCells_NoClip(point_idx, teams, boundary, acc) ==
    IF point_idx > Len(teams) THEN acc
    ELSE LET padding == Max(boundary.hi - boundary.lo, 0) * 2
             universe == {x \in (boundary.lo - padding)..(boundary.hi + padding) :
                              x % 2 = 1}
             cell == VoronoiCell(point_idx, teams, CornerPoints(boundary), universe)
         IN  TeamCells_NoClip(point_idx + 1, teams, boundary,
                 IF cell # {}
                 THEN AppendTo(acc, teams[point_idx].league, cell)
                 ELSE acc)

RECURSIVE TeamCells(_, _, _, _)
\* team_cells: league -> [clipped cells], empty clips left out
TeamCells(point_idx, teams, boundary, acc) ==
    IF point_idx > Len(teams) THEN acc
    ELSE LET padding == Max(boundary.hi - boundary.lo, 0) * 2
             universe == {x \in (boundary.lo - padding)..(boundary.hi + padding) :
                              x % 2 = 1}
             cell == VoronoiCell(point_idx, teams, CornerPoints(boundary), universe)
             clipped == cell \cap Geom(boundary)
         IN  TeamCells(point_idx + 1, teams, boundary,
                 IF clipped # {}
                 THEN AppendTo(acc, teams[point_idx].league, clipped)
                 ELSE acc)

\* unary_union(cells)
UnaryUnion(cells) == UNION {cells[i] : i \in 1..Len(cells)}

create_bounded_voronoi(teams, boundary) ==
    IF Len(teams) < 2 THEN <<>>
    ELSE LET team_cells == TeamCells(1, teams, boundary, <<>>)
         IN  [i \in 1..Len(team_cells) |->
                 [geom |-> UnaryUnion(team_cells[i][2]), league |-> team_cells[i][1],
                  src |-> boundary.name, kind |-> "voronoi"]]

(***************************************************************************)
(* create_lad_based_split                                                  *)
(***************************************************************************)
\* [t for t in teams if region["prepared"].contains(Point(...))]
TeamsIn(teams, region) ==
    LET Inside(t) == Contains(region, t.pos) IN SelectSeq(teams, Inside)

\* ClosestTeam that takes the last team at the least distance
ClosestTeam_Last(teams, centroid) ==
    LET D(i) == Distance(centroid, teams[i].pos)
    IN  teams[CHOOSE i \in 1..Len(teams) :
                  \A j \in 1..Len(teams) : D(j) > D(i) \/ (D(j) = D(i) /\ j <= i)]

\* min(teams, key=lambda t: centroid.distance(Point(...))): the first team
\* of the list at the least distance
ClosestTeam(teams, centroid) ==
    LET D(i) == Distance(centroid, teams[i].pos)
    IN  teams[CHOOSE i \in 1..Len(teams) :
                  \A j \in 1..Len(teams) : D(j) > D(i) \/ (D(j) = D(i) /\ j >= i)]

Whole(region, league, kind) ==
    [geom |-> Geom(region), league |-> league, src |-> region.name, kind |-> kind]

\* one ward of a LAD with teams of several leagues
WardPieces(ward, teams_in_lad) ==
    LET teams_in_ward == TeamsIn(teams_in_lad, ward)
        leagues_in_ward == LeaguesOf(teams_in_ward)
    IN  IF teams_in_ward = <<>>
        THEN << Whole(ward, ClosestTeam(teams_in_lad, Centroid(ward)).league,
                      "ward_nearest") >>
        ELSE IF Cardinality(leagues_in_ward) = 1
        THEN << Whole(ward, TheLeague(leagues_in_ward), "ward_single") >>
        ELSE create_bounded_voronoi(teams_in_ward, ward)

RECURSIVE WardLoop(_, _, _)
WardLoop(wards_in_lad, teams_in_lad, h) ==
    IF wards_in_lad = <<>> THEN <<>>
    ELSE WardPieces(Region(h.ward_regions, Head(wards_in_lad)), teams_in_lad)
         \o WardLoop(Tail(wards_in_lad), teams_in_lad, h)

\* LadPieces that cuts a contested LAD without wards by Voronoi
LadPieces_Voronoi(lad, teams, h) ==
    LET teams_in_lad == TeamsIn(teams, lad)
        leagues_in_lad == LeaguesOf(teams_in_lad)
        wards_in_lad == Get(h.lad_to_wards, lad.name, <<>>)
    IN  IF teams_in_lad = <<>>
        THEN << Whole(lad, ClosestTeam(teams, Centroid(lad)).league, "lad_nearest") >>
        ELSE IF Cardinality(leagues_in_lad) = 1
        THEN << Whole(lad, TheLeague(leagues_in_lad), "lad_single") >>
        ELSE IF wards_in_lad = <<>>
        THEN create_bounded_voronoi(teams_in_lad, lad)
        ELSE WardLoop(wards_in_lad, teams_in_lad, h)

\* one LAD of the ITL3 region
LadPieces(lad, teams, h) ==
    LET teams_in_lad == TeamsIn(teams, lad)
        leagues_in_lad == LeaguesOf(teams_in_lad)
        wards_in_lad == Get(h.lad_to_wards, lad.name, <<>>)
    IN  IF teams_in_lad = <<>>
        THEN << Whole(lad, ClosestTeam(teams, Centroid(lad)).league, "lad_nearest") >>
        ELSE IF Cardinality(leagues_in_lad) = 1
        THEN << Whole(lad, TheLeague(leagues_in_lad), "lad_single") >>
        ELSE IF wards_in_lad = <<>>
        THEN << Whole(lad, ClosestTeam(teams_in_lad, Centroid(lad)).league,
                      "lad_no_wards") >>
        ELSE WardLoop(wards_in_lad, teams_in_lad, h)

RECURSIVE LadLoop(_, _, _)
LadLoop(lads_in_itl3, teams, h) ==
    IF lads_in_itl3 = <<>> THEN <<>>
    ELSE LadPieces(Region(h.lad_regions, Head(lads_in_itl3)), teams, h)
         \o LadLoop(Tail(lads_in_itl3), teams, h)

create_lad_based_split(teams, itl3_region_name, h) ==
    IF Len(teams) < 2 THEN <<>>
    ELSE LadLoop(Get(h.itl3_to_lads, itl3_region_name, <<>>), teams, h)

(***************************************************************************)
(* collect_league_geometries_for_tier                                      *)
(***************************************************************************)
RECURSIVE RegularLevel(_, _, _, _, _)
\* the owned regions of one level, in the order of the level's region dict
RegularLevel(level, level_regions, level_colors, multi_league_regions, acc) ==
    IF level_regions = <<>> THEN acc
    ELSE LET region_name == Head(level_regions)[1]
             region == Head(level_regions)[2]
             skipped == level = "itl3" /\ InList(region_name, multi_league_regions)
         IN  RegularLevel(level, Tail(level_regions), level_colors, multi_league_regions,
                 IF ~skipped /\ Has(level_colors, region_name)
                 THEN AppendTo(acc, Get(level_colors, region_name, None),
                               Whole(region, Get(level_colors, region_name, None), level))
                 ELSE acc)

\* teams_for_split: the teams of the tier whose league has a team in the
\* parent ITL2 of the region
TeamsForSplit(region_name, teams, rtt, h) ==
    LET parent_itl2 == Get(h.itl3_to_itl2, region_name, None)
        leagues_in_itl2 == IF parent_itl2 # None
                           THEN LeaguesOf(Filter(Get(rtt.itl2, parent_itl2, <<>>), teams))
                           ELSE {}
        InLeagues(t) == t.league \in leagues_in_itl2
    IN  SelectSeq(teams, InLeagues)

RECURSIVE AddCells(_, _)
AddCells(cells, acc) ==
    IF cells = <<>> THEN acc
    ELSE AddCells(Tail(cells), AppendTo(acc, Head(cells).league, Head(cells)))

RECURSIVE SplitLoop(_, _, _, _, _)
\* LAD-based splitting for the multi-league ITL3 regions
SplitLoop(multi_league_regions, teams, rtt, h, acc) ==
    IF multi_league_regions = <<>> THEN acc
    ELSE LET region_name == Head(multi_league_regions)
             teams_in_region == Filter(Get(rtt.itl3, region_name, <<>>), teams)
             teams_for_split == TeamsForSplit(region_name, teams, rtt, h)
             lad_cells == IF Len(teams_in_region) >= 2 /\ Len(teams_for_split) >= 2
                          THEN create_lad_based_split(teams_for_split, region_name, h)
                          ELSE <<>>
         IN  SplitLoop(Tail(multi_league_regions), teams, rtt, h,
                       AddCells(lad_cells, acc))

collect_league_geometries_for_tier(teams, rtt, h) ==
    LET colors == color_regions_by_league(teams, rtt, h)
        multi_league_regions == colors.itl3_multi_league
        g0 == RegularLevel("itl0", h.itl0_regions, colors.itl0, multi_league_regions, <<>>)
        g1 == RegularLevel("itl1", h.itl1_regions, colors.itl1, multi_league_regions, g0)
        g2 == RegularLevel("itl2", h.itl2_regions, colors.itl2, multi_league_regions, g1)
        g3 == RegularLevel("itl3", h.itl3_regions, colors.itl3, multi_league_regions, g2)
    IN  SplitLoop(multi_league_regions, teams, rtt, h, g3)

(***************************************************************************)
(* main: load the hierarchy, locate the teams, then shade tier after tier  *)
(***************************************************************************)
\* The team lists a tier can have: up to MaxTeams teams of the tier, at
\* different coordinates, named by their place in the list.
TeamListsOf(tier_name, max, positions) ==
    UNION {{[i \in 1..n |-> [name |-> i, league |-> leagues[i], pos |-> pos[i],
                              tier |-> tier_name,
                              itl1 |-> None, itl2 |-> None, itl3 |-> None]] :
                leagues \in [1..n -> Leagues],
                pos \in {q \in [1..n -> positions] :
                            \A i, j \in 1..n : i # j => q[i] # q[j]}}
           : n \in 0..max}

TeamLists(tier_name) == TeamListsOf(tier_name, MaxTeams, TeamPos)

\* the boundary files of the repository
BoundaryFiles ==
    [itl0 |-> itl0_data, itl1 |-> itl1_data, itl2 |-> itl2_data,
     itl3 |-> itl3_data, lad |-> lad_data, ward |-> ward_data]

\* The iteration orders a process can have for the league names.
HashOrders ==
    {o \in [1..3 -> Leagues \cup {OtherTeams[1].league}] :
        \A i, j \in 1..3 : i # j => o[i] # o[j]}

\* geocode_addresses.py as imported: the module globals, no file under way
NoGeocoding ==
    /\ geocode_cache = <<>>
    /\ _address_cache_dirty = FALSE
    /\ cache_file = <<>>
    /\ _cache_lock = 0
    /\ address_data = <<>>
    /\ api_retries = 3
    /\ futures_to_idx = <<>>
    /\ force = FALSE
    /\ address_dirty = FALSE
    /\ completed = FALSE

\* fetch_addresses.py as imported: the module globals, no file under way
NoFetching ==
    /\ club_cache = <<>>
    /\ club_cache_file = <<>>
    /\ league_files = <<>>
    /\ output_files = <<>>
    /\ file_idx = 0
    /\ futures_to_club = <<>>
    /\ club_dependents = <<>>
    /\ team_results = <<>>
    /\ max_workers = 7

\* no direct call of create_bounded_voronoi is under way
NoVoronoi ==
    /\ voronoi_teams = <<>>
    /\ voronoi_boundary = None
    /\ voronoi_result = <<>>

\* make_tier_maps.py before main has loaded anything
NoMaps ==
    /\ boundaries = BoundaryFiles
    /\ hash_order = <<"Blue", "Green", "Red">>
    /\ geos_rejects = {}
    /\ teams_by_tier = <<>>
    /\ itl_hierarchy = <<>>
    /\ region_to_teams = <<>>
    /\ cur = 0
    /\ region_colors = <<>>
    /\ league_geometries = <<>>

\* the run is one of make_tier_maps.py
NoCall ==
    /\ NoVoronoi
    /\ NoGeocoding
    /\ NoFetching

Init ==
    /\ NoCall
    /\ boundaries = BoundaryFiles
    /\ hash_order = <<"Blue", "Green", "Red">>
    /\ geos_rejects = {}
    /\ \E tier_name \in TierNames : \E ts \in TeamLists(tier_name) :
           teams_by_tier = << <<tier_name, ts>>, <<OtherTier, OtherTeams>> >>
    /\ itl_hierarchy = <<>>
    /\ region_to_teams = <<>>
    /\ cur = 0
    /\ region_colors = <<>>
    /\ league_geometries = <<>>
    /\ pc = "load"

LoadItlHierarchy ==
    /\ pc = "load"
    /\ itl_hierarchy' = load_itl_hierarchy(boundaries)
    /\ pc' = "assign"
    /\ UNCHANGED other_vars
    /\ UNCHANGED <<boundaries, teams_by_tier, region_to_teams, cur, region_colors,
                   league_geometries, hash_order, geos_rejects>>

AssignTeamsToItlRegions ==
    /\ pc = "assign"
    /\ region_to_teams' = assign_teams_to_itl_regions(teams_by_tier, itl_hierarchy)
    /\ teams_by_tier' = LocatedTiers(teams_by_tier, itl_hierarchy)
    /\ pc' = "tiers"
    /\ UNCHANGED other_vars
    /\ UNCHANGED <<boundaries, itl_hierarchy, cur, region_colors, league_geometries,
                   hash_order, geos_rejects>>

\* The boundaries handed to cell.intersection(boundary_geom) in the course
\* of collect_league_geometries_for_tier, read from the geometries the call
\* returns when every intersection is accepted.  create_bounded_voronoi is
\* called with two or more teams that lie inside the boundary, and the
\* cell of a team holds the team, so every call returns a piece: the
\* boundaries of the calls are the sources of the Voronoi pieces.
ClippedBoundaries(geometries) ==
    UNION {{geometries[i][2][j].src :
                j \in {k \in 1..Len(geometries[i][2]) :
                           geometries[i][2][k].kind = "voronoi"}} :
           i \in 1..Len(geometries)}

\* cell.intersection raises GEOSException in the course of the call; no
\* caller has a handler
Raises(geometries) ==
    \E r \in geos_rejects : r \in ClippedBoundaries(geometries)

\* The end of one call of collect_league_geometries_for_tier that would
\* return colors and geometries: the result is kept and the script goes on,
\* or the exception ends the script.
Returned(colors, geometries, then_cur, then_pc) ==
    IF Raises(geometries)
    THEN /\ pc' = "GEOSException"
         /\ UNCHANGED <<cur, region_colors, league_geometries>>
    ELSE /\ cur' = then_cur
         /\ region_colors' = colors
         /\ league_geometries' = geometries
         /\ pc' = then_pc

\* CollectLeagueGeometriesForTier that takes the teams of the tier out of
\* the RegionToTeams index
CollectLeagueGeometriesForTier_Consuming ==
    /\ pc = "tiers"
    /\ cur < Len(teams_by_tier)
    /\ LET teams == teams_by_tier[cur + 1][2]
           NotShaded(t) == ~InList(t, teams)
           Rest(d) == [i \in 1..Len(d) |-> <<d[i][1], SelectSeq(d[i][2], NotShaded)>>]
       IN  /\ Returned(color_regions_by_league(teams, region_to_teams, itl_hierarchy),
                       collect_league_geometries_for_tier(teams, region_to_teams,
                                                          itl_hierarchy),
                       cur + 1, pc)
           /\ region_to_teams' = [itl1 |-> Rest(region_to_teams.itl1),
                                  itl2 |-> Rest(region_to_teams.itl2),
                                  itl3 |-> Rest(region_to_teams.itl3)]
    /\ UNCHANGED other_vars
    /\ UNCHANGED <<boundaries, teams_by_tier, itl_hierarchy, hash_order, geos_rejects>>

\* one turn of "for tier in tier_order" in create_tier_maps
CollectLeagueGeometriesForTier ==
    /\ pc = "tiers"
    /\ cur < Len(teams_by_tier)
    /\ LET teams == teams_by_tier[cur + 1][2]
       IN  Returned(color_regions_by_league(teams, region_to_teams, itl_hierarchy),
                    collect_league_geometries_for_tier(teams, region_to_teams,
                                                       itl_hierarchy),
                    cur + 1, pc)
    /\ UNCHANGED other_vars
    /\ UNCHANGED <<boundaries, teams_by_tier, itl_hierarchy, region_to_teams, hash_order,
                   geos_rejects>>

Finish ==
    /\ pc = "tiers"
    /\ cur = Len(teams_by_tier)
    /\ pc' = "done"
    /\ UNCHANGED other_vars
    /\ UNCHANGED <<boundaries, teams_by_tier, itl_hierarchy, region_to_teams, cur,
                   region_colors, league_geometries, hash_order, geos_rejects>>

Next ==
    \/ LoadItlHierarchy
    \/ AssignTeamsToItlRegions
    \/ CollectLeagueGeometriesForTier
    \/ Finish

Spec == Init /\ [][Next]_vars

(***************************************************************************)
(* A second invocation of the partitioner for the tier just shaded, as in  *)
(* create_all_tiers_map or in another run of the script, by a process with *)
(* another iteration order of the league names.                            *)
(***************************************************************************)
\* Largest number of teams in a tier that is shaded twice.
MaxRerunTeams == 2

RerunInit ==
    /\ NoCall
    /\ boundaries = BoundaryFiles
    /\ hash_order = <<"Blue", "Green", "Red">>
    /\ geos_rejects = {}
    /\ \E tier_name \in TierNames :
           \E ts \in TeamListsOf(tier_name, MaxRerunTeams, TeamPos) :
               teams_by_tier = << <<tier_name, ts>>, <<OtherTier, OtherTeams>> >>
    /\ itl_hierarchy = <<>>
    /\ region_to_teams = <<>>
    /\ cur = 0
    /\ region_colors = <<>>
    /\ league_geometries = <<>>
    /\ pc = "load"

\* another process takes over
Rehash ==
    /\ pc = "tiers"
    /\ cur >= 1
    /\ hash_order' \in HashOrders \ {hash_order}
    /\ pc' = "rerun"
    /\ UNCHANGED other_vars
    /\ UNCHANGED <<boundaries, teams_by_tier, itl_hierarchy, region_to_teams, cur,
                   region_colors, league_geometries, geos_rejects>>

\* the second call, with the same teams, index and hierarchy
Recollect ==
    /\ pc = "rerun"
    /\ LET teams == teams_by_tier[cur][2]
       IN  Returned(color_regions_by_league(teams, region_to_teams, itl_hierarchy),
                    collect_league_geometries_for_tier(teams, region_to_teams,
                                                       itl_hierarchy),
                    cur, "tiers")
    /\ UNCHANGED other_vars
    /\ UNCHANGED <<boundaries, teams_by_tier, itl_hierarchy, region_to_teams,
                   hash_order, geos_rejects>>

RerunNext ==
    \/ LoadItlHierarchy
    \/ AssignTeamsToItlRegions
    \/ CollectLeagueGeometriesForTier
    \/ Finish
    \/ Rehash
    \/ Recollect

RerunSpec == RerunInit /\ [][RerunNext]_vars

(***************************************************************************)
(* Properties                                                              *)
(***************************************************************************)
\* the team list of the tier whose result is in league_geometries
Teams == IF cur >= 1 THEN teams_by_tier[cur][2] ELSE <<>>

\* every piece of the result, whatever its league
Pieces ==
    UNION {{league_geometries[i][2][j] : j \in 1..Len(league_geometries[i][2])}
           : i \in 1..Len(league_geometries)}

\* the area returned for one league, and for all leagues
Output(l) == UNION {p.geom : p \in {q \in Pieces : q.league = l}}

AllOutput == UNION {p.geom : p \in Pieces}

\* the teams of the tier that the Point Locator put into a region
TierTeamsOf(level_index, name) == Filter(Get(level_index, name, <<>>), Teams)

\* C1 (as claimed): for a tier with at least one team, every ITL1 region
\* that holds a team of the tier is covered without gaps by the union of
\* the per-league geometries.
C1_Coverage ==
    (cur >= 1 /\ Teams # <<>>) =>
        \A i \in 1..Len(itl_hierarchy.itl1_regions) :
            LET r == itl_hierarchy.itl1_regions[i][2]
            IN  TierTeamsOf(region_to_teams.itl1, r.name) # <<>>
                    => Geom(r) \subseteq AllOutput

\* C2: no sample point is returned for two different leagues, a region that
\* is output whole is output once and for one league, and the Voronoi
\* pieces cut from one ward are one per league.
C2_Exclusivity ==
    cur >= 1 =>
        /\ \A p, q \in Pieces : p.league # q.league => p.geom \cap q.geom = {}
        /\ \A p, q \in Pieces :
               (p.src = q.src /\ (p.kind # "voronoi" \/ p.league = q.league)) => p = q
        /\ \A i \in 1..Len(league_geometries) :
               \A j, k \in 1..Len(league_geometries[i][2]) :
                   league_geometries[i][2][j] = league_geometries[i][2][k] => j = k

\* C2 witness: a tier whose result holds a Voronoi piece of one league and a
\* whole ITL3 region of another league.
C2_Witness ==
    /\ cur >= 1
    /\ \E p, q \in Pieces :
           p.kind = "voronoi" /\ q.kind = "itl3" /\ p.league # q.league

\* a region is owned outright by a league: its whole area is returned for
\* the league, and every piece that touches it contains it (no part of it
\* is output separately) and is of that league
OwnedOutright(r, l) ==
    /\ Geom(r) \subseteq Output(l)
    /\ \A p \in Pieces :
           p.geom \cap Geom(r) # {} => (Geom(r) \subseteq p.geom /\ p.league = l)

\* the regions of one level whose teams of the tier are of one league are
\* owned outright by it
SingleLeagueOwned(regions, level_index) ==
    \A i \in 1..Len(regions) :
        LET leagues == LeaguesOf(TierTeamsOf(level_index, regions[i][1]))
        IN  Cardinality(leagues) = 1 => OwnedOutright(regions[i][2], TheLeague(leagues))

\* the same for a level whose teams are found by position (LADs, wards)
SingleLeagueOwnedByPosition(regions) ==
    \A i \in 1..Len(regions) :
        LET leagues == LeaguesOf(TeamsIn(Teams, regions[i][2]))
        IN  Cardinality(leagues) = 1 => OwnedOutright(regions[i][2], TheLeague(leagues))

\* C3 (as claimed): at every level, a region whose teams of the tier belong
\* to exactly one league is owned outright by that league.
C3_Claimed ==
    cur >= 1 =>
        /\ SingleLeagueOwned(itl_hierarchy.itl1_regions, region_to_teams.itl1)
        /\ SingleLeagueOwned(itl_hierarchy.itl2_regions, region_to_teams.itl2)
        /\ SingleLeagueOwned(itl_hierarchy.itl3_regions, region_to_teams.itl3)
        /\ SingleLeagueOwnedByPosition(itl_hierarchy.lad_regions)
        /\ SingleLeagueOwnedByPosition(itl_hierarchy.ward_regions)

\* C3 (amended): an ITL3 region, a LAD or a ward whose teams of the tier
\* belong to exactly one league is owned outright by that league; the rule
\* does not extend to ITL1 and ITL2 regions.
C3_SingleLeagueRegion ==
    cur >= 1 =>
        /\ SingleLeagueOwned(itl_hierarchy.itl3_regions, region_to_teams.itl3)
        /\ SingleLeagueOwnedByPosition(itl_hierarchy.lad_regions)
        /\ SingleLeagueOwnedByPosition(itl_hierarchy.ward_regions)

\* C3 witness: a result with a whole ITL3 region of one league beside a LAD
\* that went whole to the single league of its teams.
C3_Witness ==
    /\ cur >= 1
    /\ \E p, q \in Pieces : p.kind = "itl3" /\ q.kind = "lad_single"

\* the number of ownership entries in the result of color_regions_by_league
OwnershipEntries ==
    Len(region_colors.itl0) + Len(region_colors.itl1) + Len(region_colors.itl2)
        + Len(region_colors.itl3)

\* C4 (as claimed): when all teams of a tier belong to one league the result
\* is one piece, a whole region, of that league, with one ownership entry
\* and nothing to split.
C4_Claimed ==
    (cur >= 1 /\ Cardinality(LeaguesOf(Teams)) = 1) =>
        /\ \E p \in Pieces :
               /\ Pieces = {p}
               /\ p.league \in LeaguesOf(Teams)
               /\ p.kind \in {"itl0", "itl1", "itl2", "itl3"}
        /\ OwnershipEntries = 1
        /\ region_colors.itl3_multi_league = <<>>

\* C4 (amended): when the tier is one of the national-shading tiers and all
\* its teams belong to one league, the result is the one piece England, of
\* that league, with no ITL1, ITL2 or ITL3 entry and nothing to split.
C4_NationalShortcut ==
    (/\ cur >= 1
     /\ Cardinality(LeaguesOf(Teams)) = 1
     /\ Teams[1].tier \in {"Premiership", "Championship", "National League 1",
                           "Premiership Women's"}) =>
        LET l == TheLeague(LeaguesOf(Teams))
        IN  /\ region_colors = [itl0 |-> << <<"England", l>> >>, itl1 |-> <<>>,
                                itl2 |-> <<>>, itl3 |-> <<>>,
                                itl3_multi_league |-> <<>>]
            /\ league_geometries =
                   << <<l, << [geom |-> Geom(itl0_data[1]), league |-> l,
                               src |-> "England", kind |-> "itl0"] >> >> >>

\* C4 witness: a Premiership of two or more teams of one league, shaded as
\* England.
C4_Witness ==
    /\ cur >= 1
    /\ Len(Teams) >= 2
    /\ Teams[1].tier = "Premiership"
    /\ Cardinality(LeaguesOf(Teams)) = 1
    /\ \E p \in Pieces : p.kind = "itl0"

\* league l is the league of the first team of ts at the least distance
\* from c
FirstNearest(ts, c, l) ==
    \E i \in 1..Len(ts) :
        /\ ts[i].league = l
        /\ \A j \in 1..Len(ts) :
               /\ Distance(c, ts[j].pos) >= Distance(c, ts[i].pos)
               /\ j < i => Distance(c, ts[j].pos) > Distance(c, ts[i].pos)

\* the team list handed to create_lad_based_split for the ITL3 of a LAD
InheritedOfLad(lad_name) ==
    TeamsForSplit(Get(itl_hierarchy.lad_to_itl3, lad_name, None), Teams,
                  region_to_teams, itl_hierarchy)

\* the team list a ward of a LAD inherits: those of the split in the LAD
InheritedOfWard(ward_name) ==
    LET lad_name == Get(itl_hierarchy.ward_to_lad, ward_name, None)
    IN  TeamsIn(InheritedOfLad(lad_name), Region(itl_hierarchy.lad_regions, lad_name))

\* C5: a LAD or ward that the split finds without a team goes whole to the
\* league of the first inherited team at the least distance from its
\* centroid.
C5_NearestFallback ==
    cur >= 1 =>
        \A p \in Pieces :
            /\ p.kind = "lad_nearest" =>
                   LET lad == Region(itl_hierarchy.lad_regions, p.src)
                   IN  /\ p.geom = Geom(lad)
                       /\ TeamsIn(Teams, lad) = <<>>
                       /\ FirstNearest(InheritedOfLad(p.src), Centroid(lad), p.league)
            /\ p.kind = "ward_nearest" =>
                   LET ward == Region(itl_hierarchy.ward_regions, p.src)
                   IN  /\ p.geom = Geom(ward)
                       /\ TeamsIn(Teams, ward) = <<>>
                       /\ FirstNearest(InheritedOfWard(p.src), Centroid(ward), p.league)

\* C5 witness: an empty LAD or ward with two inherited teams of different
\* leagues both at the least distance from its centroid.
C5_Witness ==
    /\ cur >= 1
    /\ \E p \in Pieces :
           /\ p.kind = "lad_nearest"
           /\ LET ts == InheritedOfLad(p.src)
                  c == Centroid(Region(itl_hierarchy.lad_regions, p.src))
              IN  \E i, j \in 1..Len(ts) :
                      /\ ts[i].league # ts[j].league
                      /\ Distance(c, ts[i].pos) = Distance(c, ts[j].pos)
                      /\ \A k \in 1..Len(ts) :
                             Distance(c, ts[k].pos) >= Distance(c, ts[i].pos)

\* C6 (as claimed): the league of an empty LAD is that of the nearest team
\* among the teams assigned to its ITL3 region, and the league of an empty
\* ward that of the nearest team among the teams in its LAD.
C6_Claimed ==
    cur >= 1 =>
        \A p \in Pieces :
            /\ p.kind = "lad_nearest" =>
                   FirstNearest(TierTeamsOf(region_to_teams.itl3,
                                            Get(itl_hierarchy.lad_to_itl3, p.src, None)),
                                Centroid(Region(itl_hierarchy.lad_regions, p.src)),
                                p.league)
            /\ p.kind = "ward_nearest" =>
                   FirstNearest(TeamsIn(Teams,
                                        Region(itl_hierarchy.lad_regions,
                                               Get(itl_hierarchy.ward_to_lad, p.src, None))),
                                Centroid(Region(itl_hierarchy.ward_regions, p.src)),
                                p.league)

\* the names in a list of region names, as a set
Names(list) == {list[i] : i \in 1..Len(list)}

\* the ITL3 regions that the result lists for LAD-based splitting
MultiLeagueRegions == Names(region_colors.itl3_multi_league)

\* the LADs that the split of the tier went through
SplitLads ==
    UNION {Names(Get(itl_hierarchy.itl3_to_lads, r, <<>>)) : r \in MultiLeagueRegions}

\* a LAD of the split with teams of several leagues
ContestedLad(lad_name) ==
    Cardinality(LeaguesOf(TeamsIn(Teams, Region(itl_hierarchy.lad_regions, lad_name)))) >= 2

\* the region was cut by the Voronoi splitter
VoronoiSplit(name) == \E p \in Pieces : p.kind = "voronoi" /\ p.src = name

C9_VoronoiOwnership ==
    cur >= 1 =>
        \A i \in 1..Len(itl_hierarchy.ward_regions) :
            LET ward == itl_hierarchy.ward_regions[i][2]
                ts == TeamsIn(Teams, ward)
            IN  VoronoiSplit(ward.name) =>
                    \A a \in 1..Len(ts) : \A x \in Geom(ward) :
                        (\A b \in 1..Len(ts) :
                             b # a => Distance(x, ts[a].pos) < Distance(x, ts[b].pos))
                        => /\ \E p \in Pieces :
                                  /\ p.kind = "voronoi"
                                  /\ p.src = ward.name
                                  /\ p.league = ts[a].league
                                  /\ x \in p.geom
                           /\ \A l \in LeaguesOf(Teams) :
                                  l # ts[a].league => x \notin Output(l)

\* C9 witness: a ward with three teams, cut between two leagues.
C9_Witness ==
    /\ cur >= 1
    /\ \E p, q \in Pieces :
           /\ p.kind = "voronoi" /\ q.kind = "voronoi"
           /\ p.src = q.src /\ p.league # q.league
           /\ p.geom # {} /\ q.geom # {}
           /\ Len(TeamsIn(Teams, Region(itl_hierarchy.ward_regions, p.src))) = 3

\* C10: when the tier has two teams, of different leagues, in the same
\* ward, the ward contributes exactly two pieces, both cut by the Voronoi
\* splitter, one per league, disjoint, and together the whole ward.
C10_TwoContestedTeams ==
    (/\ cur >= 1
     /\ Len(Teams) = 2
     /\ Teams[1].league # Teams[2].league) =>
        \A i \in 1..Len(itl_hierarchy.ward_regions) :
            LET ward == itl_hierarchy.ward_regions[i][2]
                from_ward == {p \in Pieces : p.geom \cap Geom(ward) # {}}
            IN  (Contains(ward, Teams[1].pos) /\ Contains(ward, Teams[2].pos)) =>
                    \E p, q \in from_ward :
                        /\ from_ward = {p, q}
                        /\ p.kind = "voronoi" /\ q.kind = "voronoi"
                        /\ p.src = ward.name /\ q.src = ward.name
                        /\ p.league = Teams[1].league /\ q.league = Teams[2].league
                        /\ p.geom \cap q.geom = {}
                        /\ p.geom \cup q.geom = Geom(ward)

\* C10 witness: a tier of two teams of different leagues in one ward, after
\* its result was computed.
C10_Witness ==
    /\ cur >= 1
    /\ Len(Teams) = 2
    /\ Teams[1].league # Teams[2].league
    /\ \E i \in 1..Len(itl_hierarchy.ward_regions) :
           /\ Contains(itl_hierarchy.ward_regions[i][2], Teams[1].pos)
           /\ Contains(itl_hierarchy.ward_regions[i][2], Teams[2].pos)
    /\ Pieces # {}

\* the teams of the tier that the Point Locator put into an ITL3 or ITL2
\* region, and the teams that lie in a LAD or ward
InItl3(r) == TierTeamsOf(region_to_teams.itl3, r.name)

InItl2(r) == TierTeamsOf(region_to_teams.itl2, r.name)

ByPosition(r) == TeamsIn(Teams, r)

\* the clean-split scenario: the tier has three teams, two of one league in
\* in_x and one of another league in in_y
CleanSplitScenario(in_x, in_y) ==
    /\ Len(Teams) = 3
    /\ Len(in_x) = 2 /\ Len(in_y) = 1
    /\ Cardinality(LeaguesOf(in_x)) = 1
    /\ LeaguesOf(in_x) # LeaguesOf(in_y)

\* its result: the parent is not output whole, each child is owned outright
\* by the league of its teams, and no piece was cut by the Voronoi splitter
CleanSplitResult(P, X, Y, in_x, in_y) ==
    /\ \A p \in Pieces : ~(Geom(P) \subseteq p.geom)
    /\ OwnedOutright(X, TheLeague(LeaguesOf(in_x)))
    /\ OwnedOutright(Y, TheLeague(LeaguesOf(in_y)))
    /\ \A p \in Pieces : p.kind # "voronoi"

\* the scenario gives its result for every parent of one level and every
\* two of its children
CleanSplitLevel(to_children, parent_regions, child_regions, TeamsOf(_)) ==
    \A i \in 1..Len(to_children) :
        LET kids == to_children[i][2]
        IN  \A a, b \in 1..Len(kids) :
                LET X == Region(child_regions, kids[a])
                    Y == Region(child_regions, kids[b])
                IN  (a # b /\ CleanSplitScenario(TeamsOf(X), TeamsOf(Y))) =>
                        CleanSplitResult(Region(parent_regions, to_children[i][1]),
                                         X, Y, TeamsOf(X), TeamsOf(Y))

\* C11 (as claimed): at every level of the hierarchy, two teams of one
\* league in child X and one team of another league in child Y of the same
\* parent P leave P unowned, X whole to the first league, Y whole to the
\* second, and nothing is cut by the Voronoi splitter.
C11_Claimed ==
    cur >= 1 =>
        /\ CleanSplitLevel(itl_hierarchy.itl1_to_itl2s, itl_hierarchy.itl1_regions,
                           itl_hierarchy.itl2_regions, InItl2)
        /\ CleanSplitLevel(itl_hierarchy.itl2_to_itl3s, itl_hierarchy.itl2_regions,
                           itl_hierarchy.itl3_regions, InItl3)
        /\ CleanSplitLevel(itl_hierarchy.itl3_to_lads, itl_hierarchy.itl3_regions,
                           itl_hierarchy.lad_regions, ByPosition)
        /\ CleanSplitLevel(itl_hierarchy.lad_to_wards, itl_hierarchy.lad_regions,
                           itl_hierarchy.ward_regions, ByPosition)

\* C11 (amended): the clean split holds when X and Y are ITL3 regions of one
\* ITL2 region, LADs of one ITL3 region or wards of one LAD; it does not
\* extend to ITL2 regions of one ITL1 region.
C11_CleanSplit ==
    cur >= 1 =>
        /\ CleanSplitLevel(itl_hierarchy.itl2_to_itl3s, itl_hierarchy.itl2_regions,
                           itl_hierarchy.itl3_regions, InItl3)
        /\ CleanSplitLevel(itl_hierarchy.itl3_to_lads, itl_hierarchy.itl3_regions,
                           itl_hierarchy.lad_regions, ByPosition)
        /\ CleanSplitLevel(itl_hierarchy.lad_to_wards, itl_hierarchy.lad_regions,
                           itl_hierarchy.ward_regions, ByPosition)

\* C11 witness: the scenario in two ITL3 regions of one ITL2 region, each
\* output whole.
C11_Witness ==
    /\ cur >= 1
    /\ \E i \in 1..Len(itl_hierarchy.itl2_to_itl3s) :
           LET kids == itl_hierarchy.itl2_to_itl3s[i][2]
           IN  \E a, b \in 1..Len(kids) :
                   /\ a # b
                   /\ CleanSplitScenario(InItl3(Region(itl_hierarchy.itl3_regions, kids[a])),
                                         InItl3(Region(itl_hierarchy.itl3_regions, kids[b])))
                   /\ \E p, q \in Pieces :
                          /\ p.kind = "itl3" /\ p.src = kids[a]
                          /\ q.kind = "itl3" /\ q.src = kids[b]

(***************************************************************************)
(* Other boundary files: the same regions with other codes (none, too      *)
(* short, the code of another region, a prefix that names no parent), an   *)
(* ITL1 file without region S and an ITL3 region B that overlaps A.        *)
(***************************************************************************)
\* Largest number of teams in the tier that is located in them.
MaxLocated == 2

\* Coordinates of the teams that are located in them.
LocatedPos == {8, 28, 40}

WithCode(feature, code) == [feature EXCEPT !.code = code]

BoundaryVariants ==
    {[itl0 |-> itl0_data,
      itl1 |-> f1,
      itl2 |-> << WithCode(itl2_data[1], n1), WithCode(itl2_data[2], n2),
                  WithCode(itl2_data[3], s1) >>,
      itl3 |-> << WithCode(itl3_data[1], a),
                  [WithCode(itl3_data[2], b) EXCEPT !.lo = b_lo],
                  WithCode(itl3_data[3], c), WithCode(itl3_data[4], d) >>,
      lad |-> lad_data,
      ward |-> ward_data] :
        f1 \in {itl1_data, <<itl1_data[1]>>},
        n1 \in {<<"T", "L", "C", "1">>, <<>>},
        n2 \in {<<"T", "L", "C", "2">>, <<"T", "L", "C", "1">>, <<"T", "L">>},
        s1 \in {<<"T", "L", "X", "1">>, <<"T", "L", "D", "1">>},
        a \in {<<"T", "L", "C", "1", "1">>, <<"T", "L", "C">>},
        b \in {<<"T", "L", "C", "1", "2">>, <<"T", "L", "C", "2", "1">>},
        b_lo \in {26, 2},
        c \in {<<"T", "L", "C", "2", "1">>, <<>>},
        d \in {<<"T", "L", "X", "1", "1">>, <<"T", "L", "D", "1", "1">>}}

LocatedTeamLists == TeamListsOf("Counties 1", MaxLocated, LocatedPos)

HierarchyInit ==
    /\ NoCall
    /\ boundaries \in BoundaryVariants
    /\ hash_order = <<"Blue", "Green", "Red">>
    /\ geos_rejects = {}
    /\ \E ts \in LocatedTeamLists :
           teams_by_tier = << <<"Counties 1", ts>>, <<OtherTier, OtherTeams>> >>
    /\ itl_hierarchy = <<>>
    /\ region_to_teams = <<>>
    /\ cur = 0
    /\ region_colors = <<>>
    /\ league_geometries = <<>>
    /\ pc = "load"

HierarchySpec == HierarchyInit /\ [][Next]_vars

\* the (league, geometry) pairs of a result
Pairs(geometries) ==
    UNION {{<<geometries[i][1], geometries[i][2][j].geom>> :
                j \in 1..Len(geometries[i][2])} : i \in 1..Len(geometries)}

\* C12: a second invocation of collect_league_geometries_for_tier with the
\* same teams, RegionToTeams index and hierarchy returns the same set of
\* (league, geometry) pairs as the first, whatever the iteration order of
\* the process that runs it.
C12_Determinism ==
    [][pc = "rerun" => Pairs(league_geometries') = Pairs(league_geometries)]_vars

\* C12 witness: a tier with pieces of two leagues, some of them cut by the
\* Voronoi splitter, was shaded a second time under another order.
C12_Witness ==
    /\ pc = "tiers"
    /\ cur >= 1
    /\ hash_order # <<"Blue", "Green", "Red">>
    /\ \E p, q \in Pieces : p.league # q.league /\ p.kind = "voronoi"

\* the Point Locator has run
Located == pc \in {"tiers", "done"}

\* every team of every tier
EveryTeam == {AllTeams(teams_by_tier)[i] : i \in 1..Len(AllTeams(teams_by_tier))}

\* some region of the list of names contains the point
SomeContains(names, regions, x) ==
    \E i \in 1..Len(names) : Contains(Region(regions, names[i]), x)

\* the candidate children of a found region
Itl2Candidates(t) == Get(itl_hierarchy.itl1_to_itl2s, t.itl1, <<>>)

Itl3Candidates(t) == Get(itl_hierarchy.itl2_to_itl3s, t.itl2, <<>>)

\* C13: for every team, a level at which no candidate region contains the
\* point is null and so is every finer level: itl3 is null when itl2 is,
\* itl2 is null when itl1 is, whatever finer regions contain the point.
C13_StopsAtFirstFailure ==
    Located =>
        \A t \in EveryTeam :
            /\ ~SomeContains(Keys(itl_hierarchy.itl1_regions), itl_hierarchy.itl1_regions,
                             t.pos) => t.itl1 = None
            /\ t.itl1 = None => t.itl2 = None
            /\ (t.itl1 # None
                   /\ ~SomeContains(Itl2Candidates(t), itl_hierarchy.itl2_regions, t.pos))
                   => t.itl2 = None
            /\ t.itl2 = None => t.itl3 = None
            /\ (t.itl2 # None
                   /\ ~SomeContains(Itl3Candidates(t), itl_hierarchy.itl3_regions, t.pos))
                   => t.itl3 = None

\* C13 witness: one team is in no ITL1 region but in an ITL2 region, another
\* has an ITL1 region, no ITL2 region, and lies in an ITL3 region.
C13_Witness ==
    /\ Located
    /\ \E t, u \in EveryTeam :
           /\ t.itl1 = None
           /\ SomeContains(Keys(itl_hierarchy.itl2_regions), itl_hierarchy.itl2_regions,
                           t.pos)
           /\ u.itl1 # None /\ u.itl2 = None
           /\ SomeContains(Keys(itl_hierarchy.itl3_regions), itl_hierarchy.itl3_regions,
                           u.pos)

\* name is the first of the list of names whose region contains the point
FirstOf(names, regions, x, name) ==
    \E i \in 1..Len(names) :
        /\ names[i] = name
        /\ Contains(Region(regions, name), x)
        /\ \A j \in 1..(i - 1) : ~Contains(Region(regions, names[j]), x)

\* C14: for every team, itl1 is the first ITL1 region that contains the
\* point, a non-null itl2 is the first child of itl1, in the order of
\* itl1_to_itl2s, that contains it, and a non-null itl3 the first such child
\* of itl2; a level is non-null when some child of the level above contains
\* the point.
C14_ChildrenOnly ==
    Located =>
        \A t \in EveryTeam :
            /\ t.itl1 # None =>
                   FirstOf(Keys(itl_hierarchy.itl1_regions), itl_hierarchy.itl1_regions,
                           t.pos, t.itl1)
            /\ t.itl2 # None =>
                   /\ t.itl1 # None
                   /\ FirstOf(Itl2Candidates(t), itl_hierarchy.itl2_regions, t.pos, t.itl2)
            /\ t.itl3 # None =>
                   /\ t.itl2 # None
                   /\ FirstOf(Itl3Candidates(t), itl_hierarchy.itl3_regions, t.pos, t.itl3)
            /\ (t.itl1 # None
                   /\ SomeContains(Itl2Candidates(t), itl_hierarchy.itl2_regions, t.pos))
                   => t.itl2 # None
            /\ (t.itl2 # None
                   /\ SomeContains(Itl3Candidates(t), itl_hierarchy.itl3_regions, t.pos))
                   => t.itl3 # None

\* C14 witness: one team lies in two children of its ITL2 region and has
\* the first as itl3; another has an ITL2 region, no ITL3 region, and lies
\* in an ITL3 region that is not a child of its ITL2 region.
C14_Witness ==
    /\ Located
    /\ \E t, u \in EveryTeam :
           /\ t.itl3 # None
           /\ \E i \in 1..Len(Itl3Candidates(t)) :
                  /\ Itl3Candidates(t)[i] # t.itl3
                  /\ Contains(Region(itl_hierarchy.itl3_regions, Itl3Candidates(t)[i]),
                              t.pos)
           /\ u.itl2 # None /\ u.itl3 = None
           /\ SomeContains(Keys(itl_hierarchy.itl3_regions), itl_hierarchy.itl3_regions,
                           u.pos)

\* the reverse index of one level agrees with one field of the teams
IndexAgrees(index, Field(_)) ==
    /\ \A i \in 1..Len(index) :
           /\ \A t \in EveryTeam : InList(t, index[i][2]) <=> Field(t) = index[i][1]
           /\ \A j, k \in 1..Len(index[i][2]) :
                  /\ index[i][2][j] \in EveryTeam
                  /\ index[i][2][j] = index[i][2][k] => j = k
    /\ \A t \in EveryTeam : Field(t) # None => Has(index, Field(t))
    /\ \A i, j \in 1..Len(index) : index[i][1] = index[j][1] => i = j

Itl1Field(t) == t.itl1

Itl2Field(t) == t.itl2

Itl3Field(t) == t.itl3

\* C15: at each level, a team is in the list of a region exactly when its
\* field of the level names the region; it is in no list twice; a team with
\* a null field of a level is in no list of the level.
C15_IndexConsistent ==
    Located =>
        /\ IndexAgrees(region_to_teams.itl1, Itl1Field)
        /\ IndexAgrees(region_to_teams.itl2, Itl2Field)
        /\ IndexAgrees(region_to_teams.itl3, Itl3Field)

\* C15 witness: a team that reached ITL1 only is in the ITL1 list of its
\* region beside another team, and in no ITL2 list.
C15_Witness ==
    /\ Located
    /\ \E t \in EveryTeam :
           /\ t.itl1 # None /\ t.itl2 = None
           /\ InList(t, Get(region_to_teams.itl1, t.itl1, <<>>))
           /\ Len(Get(region_to_teams.itl1, t.itl1, <<>>)) >= 2
           /\ \A i \in 1..Len(region_to_teams.itl2) :
                  ~InList(t, region_to_teams.itl2[i][2])

(***************************************************************************)
(* C16  A tier without teams                                               *)
(***************************************************************************)
\* the entries of the index: the teams of every tier, under each level
IndexedTeams ==
    UNION {UNION {{region_to_teams[level][i][2][j] :
                       j \in 1..Len(region_to_teams[level][i][2])} :
                  i \in 1..Len(region_to_teams[level])} :
           level \in {"itl1", "itl2", "itl3"}}

\* C16: called with an empty team list, color_regions_by_league returns no
\* ownership entry at any level and no multi-league region, and
\* collect_league_geometries_for_tier returns no geometry, while the
\* RegionToTeams index holds the teams of the other tiers.
C16_ZeroTeams ==
    (cur >= 1 /\ Teams = <<>>) =>
        /\ region_colors = [itl0 |-> <<>>, itl1 |-> <<>>, itl2 |-> <<>>,
                            itl3 |-> <<>>, itl3_multi_league |-> <<>>]
        /\ league_geometries = <<>>

\* an empty tier was shaded while the index held a team of another tier
C16_Witness ==
    /\ cur = 1
    /\ Teams = <<>>
    /\ \E t \in IndexedTeams : t.tier = OtherTier /\ t.itl3 # None
    /\ region_colors.itl3 = <<>>
    /\ league_geometries = <<>>

(***************************************************************************)
(* C17  The level at which the shading of a tier starts                    *)
(***************************************************************************)
\* the tier-dependent part of color_regions_by_league: England as a whole
\* for the national tiers, the loosened ownership rule for the bigger
\* tiers, ITL3 ownership upwards for every other tier
EntryLevel(tier_name) ==
    IF tier_name \in {"Premiership", "Championship", "National League 1",
                      "Premiership Women's"}
    THEN "itl0"
    ELSE IF tier_name \in {"National League 2", "Championship 1", "Championship 2"}
    THEN "itl1"
    ELSE "itl3"

\* the teams of the tier found under an ITL1 region
InItl1(name) == TierTeamsOf(region_to_teams.itl1, name)

\* an ITL1 region with teams of the tier, all of one league, is owned by it
LoosenedItl1 ==
    \A i \in 1..Len(region_to_teams.itl1) :
        LET name == region_to_teams.itl1[i][1]
        IN  (InItl1(name) # <<>> /\ Cardinality(LeaguesOf(InItl1(name))) = 1) =>
                /\ Has(region_colors.itl1, name)
                /\ Get(region_colors.itl1, name, None) \in LeaguesOf(InItl1(name))

C18_ReadOnly ==
    pc \in {"tiers", "done"} =>
        LET h == load_itl_hierarchy(boundaries)
            rtt == assign_teams_to_itl_regions(teams_by_tier, h)
        IN  /\ itl_hierarchy = h
            /\ region_to_teams = rtt
            /\ cur >= 1 =>
                   /\ region_colors = color_regions_by_league(Teams, rtt, h)
                   /\ league_geometries =
                          collect_league_geometries_for_tier(Teams, rtt, h)

\* the second tier has been shaded, with an owned region, after a first
\* tier that was split among two leagues in the same ITL3 region
C18_Witness ==
    /\ cur = 2
    /\ league_geometries # <<>>
    /\ \E t, u \in {teams_by_tier[1][2][i] : i \in 1..Len(teams_by_tier[1][2])} :
           /\ t.league # u.league
           /\ t.itl3 = Teams[1].itl3
           /\ u.itl3 = Teams[1].itl3

(***************************************************************************)
(* C20  The child-to-parent and parent-to-children maps                    *)
(***************************************************************************)
Loaded == pc # "load"

\* no key twice in a dict, no name twice in a list
NoRepeat(list) == \A i, j \in 1..Len(list) : i # j => list[i] # list[j]

\* c is in to_children[p] exactly when to_parent[c] = p, and no child is
\* listed twice
ExactInverse(to_parent, to_children) ==
    /\ NoRepeat(Keys(to_parent))
    /\ NoRepeat(Keys(to_children))
    /\ \A i \in 1..Len(to_parent) :
           InList(to_parent[i][1], Get(to_children, to_parent[i][2], <<>>))
    /\ \A i \in 1..Len(to_children) :
           /\ NoRepeat(to_children[i][2])
           /\ \A j \in 1..Len(to_children[i][2]) :
                  Get(to_parent, to_children[i][2][j], None) = to_children[i][1]

\* the children of one file whose code starts with the code of a feature
\* of the parent file are the keys of to_parent, each under such a parent
ParentsByCode(children, n, parents, to_parent) ==
    \A i \in 1..Len(children) :
        LET c == children[i]
            Matching == {k \in 1..Len(parents) :
                            /\ parents[k].code # <<>>
                            /\ Len(c.code) >= n
                            /\ SubSeq(c.code, 1, n) = parents[k].code}
        IN  IF Matching = {}
            THEN ~Has(to_parent, c.name)
            ELSE \E k \in Matching : Get(to_parent, c.name, None) = parents[k].name

\* a child mapped by its centroid lies in its parent, and the parent is
\* itself mapped; a child whose centroid no region of the parent file
\* contains is not mapped
ParentsByCentroid(children, parents, to_parent, parent_mapped(_)) ==
    \A i \in 1..Len(children) :
        LET c == children[i]
            Holding == {k \in 1..Len(parents) : Contains(parents[k], Centroid(c))}
        IN  /\ Holding = {} => ~Has(to_parent, c.name)
            /\ Has(to_parent, c.name) =>
                   \E k \in Holding :
                       /\ Get(to_parent, c.name, None) = parents[k].name
                       /\ parent_mapped(parents[k].name)

\* C20: load_itl_hierarchy completes for every set of boundary files; a
\* child whose code is missing, too short or names no parent, or whose
\* centroid lies in no candidate parent, has no entry in the
\* child-to-parent map; and each parent-to-children map is the exact
\* inverse of its child-to-parent map.
C20_HierarchyMaps ==
    Loaded =>
        LET h == itl_hierarchy
            Itl3Mapped(name) == Has(h.itl3_to_itl2, name)
            LadMapped(name) == Has(h.lad_to_itl3, name)
        IN  /\ ParentsByCode(boundaries.itl3, 4, boundaries.itl2, h.itl3_to_itl2)
            /\ ParentsByCode(boundaries.itl2, 3, boundaries.itl1, h.itl2_to_itl1)
            /\ ParentsByCentroid(boundaries.lad, boundaries.itl3, h.lad_to_itl3,
                                 Itl3Mapped)
            /\ ParentsByCentroid(boundaries.ward, boundaries.lad, h.ward_to_lad,
                                 LadMapped)
            /\ ExactInverse(h.itl3_to_itl2, h.itl2_to_itl3s)
            /\ ExactInverse(h.itl2_to_itl1, h.itl1_to_itl2s)
            /\ ExactInverse(h.lad_to_itl3, h.itl3_to_lads)
            /\ ExactInverse(h.ward_to_lad, h.lad_to_wards)

\* the hierarchy of boundary files in which an ITL2 has no code, an ITL3
\* code names no ITL2, another ITL3 code is too short and, for that, the
\* LADs and wards lie in no candidate, next to an ITL2 with two children
C20_Witness ==
    /\ Loaded
    /\ \E i \in 1..Len(boundaries.itl2) : boundaries.itl2[i].code = <<>>
    /\ \E i \in 1..Len(boundaries.itl3) :
           /\ Len(boundaries.itl3[i].code) >= 4
           /\ ~Has(itl_hierarchy.itl3_to_itl2, boundaries.itl3[i].name)
    /\ \E i \in 1..Len(boundaries.itl3) : Len(boundaries.itl3[i].code) \in 1..3
    /\ itl_hierarchy.lad_to_itl3 = <<>>
    /\ itl_hierarchy.ward_to_lad = <<>>
    /\ \E i \in 1..Len(itl_hierarchy.itl2_to_itl3s) :
           Len(itl_hierarchy.itl2_to_itl3s[i][2]) = 2

(***************************************************************************)
(* C19  A rejection by the geometry library                                *)
(***************************************************************************)
\* Largest number of teams in a tier shaded with a rejecting library.
MaxClipTeams == 2

\* The geometry library rejects the ward boundaries of any one set.
GeometryInit ==
    /\ NoCall
    /\ boundaries = BoundaryFiles
    /\ hash_order = <<"Blue", "Green", "Red">>
    /\ geos_rejects \in SUBSET {ward_data[i].name : i \in 1..Len(ward_data)}
    /\ \E tier_name \in TierNames :
           \E ts \in TeamListsOf(tier_name, MaxClipTeams, TeamPos) :
               teams_by_tier = << <<tier_name, ts>>, <<OtherTier, OtherTeams>> >>
    /\ itl_hierarchy = <<>>
    /\ region_to_teams = <<>>
    /\ cur = 0
    /\ region_colors = <<>>
    /\ league_geometries = <<>>
    /\ pc = "load"

GeometrySpec == GeometryInit /\ [][Next]_vars

\* the pieces of the tier other than the cells cut from a rejected boundary
Accepted ==
    LET g == collect_league_geometries_for_tier(Teams, region_to_teams, itl_hierarchy)
    IN  UNION {{g[i][2][j] :
                    j \in {k \in 1..Len(g[i][2]) :
                               ~(/\ g[i][2][k].kind = "voronoi"
                                 /\ g[i][2][k].src \in geos_rejects)}} :
               i \in 1..Len(g)}

\* C19 (as claimed): a rejection by the geometry library never ends the
\* computation of a tier, and the tier's result holds every contribution
\* but the rejected ones.
C19_Claimed ==
    /\ pc # "GEOSException"
    /\ cur >= 1 => Pieces = Accepted

(***************************************************************************)
(* C22  The bottom-up ownership rule                                       *)
(***************************************************************************)
\* a tier shaded by the standard rule: it has teams and is no bigger tier
StandardRule ==
    /\ cur >= 1
    /\ Teams # <<>>
    /\ Teams[1].tier \notin {"National League 2", "Championship 1", "Championship 2"}

\* the teams of the tier under region name of a level are of league l only
OnlyLeague(level, name, l) ==
    LET tier_teams == TierTeamsOf(region_to_teams[level], name)
    IN  tier_teams # <<>> /\ LeaguesOf(tier_teams) = {l}

\* the set of the names in a list
ChildrenOf(to_children, name) ==
    LET children == Get(to_children, name, <<>>)
    IN  {children[i] : i \in 1..Len(children)}

\* the ITL3 children of an ITL2 that league l owns
OwnedItl3s(itl2_name, l) ==
    {c \in ChildrenOf(itl_hierarchy.itl2_to_itl3s, itl2_name) : OnlyLeague("itl3", c, l)}

C24_OnlyLeaguePresent ==
    cur >= 1 =>
        \A level \in {"itl1", "itl2", "itl3"} :
            \A i \in 1..Len(region_colors[level]) :
                OnlyLeague(level, region_colors[level][i][1], region_colors[level][i][2])

\* a tier of two leagues with an owned ITL1 and an owned ITL2
C24_Witness ==
    /\ cur >= 1
    /\ Cardinality(LeaguesOf(Teams)) = 2
    /\ region_colors.itl1 # <<>>
    /\ region_colors.itl2 # <<>>

(***************************************************************************)
(* C25  No region is output under an owned ancestor                        *)
(***************************************************************************)
\* the ITL3 regions of the result: the owned ones and the multi-league ones
ListedItl3s == Names(Keys(region_colors.itl3)) \cup MultiLeagueRegions

\* C25: in the result of color_regions_by_league the parent ITL1 of a
\* listed ITL2 is not listed; neither the parent ITL2 nor the grandparent
\* ITL1 of a listed ITL3, owned or multi-league, is listed; and no ITL3 is
\* both owned and multi-league.
C25_NoOwnedAncestor ==
    cur >= 1 =>
        /\ \A r \in Names(Keys(region_colors.itl2)) :
               ~Has(region_colors.itl1, Get(itl_hierarchy.itl2_to_itl1, r, None))
        /\ \A r \in ListedItl3s :
               LET parent == Get(itl_hierarchy.itl3_to_itl2, r, None)
                   grandparent == Get(itl_hierarchy.itl2_to_itl1, parent, None)
               IN  /\ ~Has(region_colors.itl2, parent)
                   /\ ~Has(region_colors.itl1, grandparent)
        /\ Names(Keys(region_colors.itl3)) \cap MultiLeagueRegions = {}

\* an ITL2 is listed, one of its ITL3 regions holds teams of the tier, and
\* an ITL3 of another ITL2 is listed
C25_Witness ==
    /\ cur >= 1
    /\ ListedItl3s # {}
    /\ \E r \in Names(Keys(region_colors.itl2)) :
           \E c \in ChildrenOf(itl_hierarchy.itl2_to_itl3s, r) :
               TierTeamsOf(region_to_teams.itl3, c) # <<>>

(***************************************************************************)
(* C26  The order of the teams and of the index                            *)
(*                                                                         *)
(* The tier is shaded again after another load of the same teams: the      *)
(* team list of the tier comes in another order, the other tier comes      *)
(* before or after it in teams_by_tier, and the RegionToTeams index is     *)
(* built anew, in the insertion order that this order of the teams gives.  *)
(***************************************************************************)
\* Largest number of teams in a tier that is shaded in several orders.
MaxOrderTeams == 2

OrderPos == {4, 8, 16, 28, 32, 40}

\* the orders a list can come in
Perms(list) ==
    {[i \in 1..Len(list) |-> list[p[i]]] :
        p \in {q \in [1..Len(list) -> 1..Len(list)] :
                  \A i, j \in 1..Len(list) : i # j => q[i] # q[j]}}

OrderInit ==
    /\ NoCall
    /\ boundaries = BoundaryFiles
    /\ hash_order = <<"Blue", "Green", "Red">>
    /\ geos_rejects = {}
    /\ \E tier_name \in TierNames :
           \E ts \in TeamListsOf(tier_name, MaxOrderTeams, OrderPos) :
               teams_by_tier = << <<tier_name, ts>>, <<OtherTier, OtherTeams>> >>
    /\ itl_hierarchy = <<>>
    /\ region_to_teams = <<>>
    /\ cur = 0
    /\ region_colors = <<>>
    /\ league_geometries = <<>>
    /\ pc = "load"

\* load_teams_data and assign_teams_to_itl_regions of another run
Reorder ==
    /\ pc = "tiers"
    /\ cur >= 1
    /\ teams_by_tier[cur][1] # OtherTier
    /\ \E ts \in Perms(teams_by_tier[cur][2]), other_first \in BOOLEAN :
           LET tier == <<teams_by_tier[cur][1], ts>>
               other == teams_by_tier[3 - cur]
               by_tier == IF other_first THEN <<other, tier>> ELSE <<tier, other>>
           IN  /\ by_tier # teams_by_tier
               /\ teams_by_tier' = by_tier
               /\ region_to_teams' = assign_teams_to_itl_regions(by_tier, itl_hierarchy)
               /\ cur' = IF other_first THEN 2 ELSE 1
    /\ pc' = "rerun"
    /\ UNCHANGED other_vars
    /\ UNCHANGED <<boundaries, itl_hierarchy, region_colors, league_geometries,
                   hash_order, geos_rejects>>

OrderNext ==
    \/ LoadItlHierarchy
    \/ AssignTeamsToItlRegions
    \/ CollectLeagueGeometriesForTier
    \/ Finish
    \/ Reorder
    \/ Recollect

OrderSpec == OrderInit /\ [][OrderNext]_vars

\* the ownership maps as sets of (region, league) pairs, the multi-league
\* list as a set of names
AsSets(colors) ==
    [itl0 |-> Names(colors.itl0), itl1 |-> Names(colors.itl1),
     itl2 |-> Names(colors.itl2), itl3 |-> Names(colors.itl3),
     itl3_multi_league |-> Names(colors.itl3_multi_league)]

\* C26: color_regions_by_league called for the same teams in another order
\* of the team list, with the RegionToTeams index built in another
\* insertion order, returns the same ownership maps and the same set of
\* multi-league ITL3 regions.
C26_OrderIndependent ==
    [][pc = "rerun" => AsSets(region_colors') = AsSets(region_colors)]_vars

\* a standard tier shaded again with its two teams in the other order and
\* the other tier first in the index: one ITL2 owned through its only
\* ITL3, the other promoted beside it, and so the ITL1 owned
C26_Witness ==
    /\ pc = "tiers"
    /\ cur = 2
    /\ teams_by_tier[1][1] = OtherTier
    /\ Len(Teams) = 2
    /\ Teams[1].name = 2
    /\ Teams[1].tier = "Counties 1"
    /\ region_colors.itl1 # <<>>

(***************************************************************************)
(* create_bounded_voronoi as a function of its arguments: any list of      *)
(* teams at different coordinates, inside or outside the boundary, and any *)
(* region as the boundary.                                                 *)
(***************************************************************************)
\* Largest number of teams handed to one call of create_bounded_voronoi.
MaxVoronoiTeams == 3

\* coordinates of the teams handed to the call
VoronoiPos == {4, 8, 12, 16, 20, 24}

\* the regions handed to the call as boundary_geom
VoronoiBoundaries ==
    {lad_data[1], lad_data[2], ward_data[1], ward_data[2], itl3_data[2]}

VoronoiInit ==
    /\ voronoi_teams \in TeamListsOf("Counties 1", MaxVoronoiTeams, VoronoiPos)
    /\ voronoi_boundary \in VoronoiBoundaries
    /\ voronoi_result = <<>>
    /\ NoGeocoding
    /\ NoFetching
    /\ pc = "call"
    /\ NoMaps

\* one call of create_bounded_voronoi(teams, boundary_geom, league_colors)
CreateBoundedVoronoi ==
    /\ pc = "call"
    /\ voronoi_result' = create_bounded_voronoi(voronoi_teams, voronoi_boundary)
    /\ pc' = "returned"
    /\ UNCHANGED <<map_vars, voronoi_teams, voronoi_boundary, geocode_vars, fetch_vars>>

VoronoiNext == CreateBoundedVoronoi

VoronoiSpec == VoronoiInit /\ [][VoronoiNext]_vars

\* cell.intersection(boundary_geom) of the team number point_idx
ClippedCell(point_idx) ==
    LET padding == Max(voronoi_boundary.hi - voronoi_boundary.lo, 0) * 2
        universe == {x \in (voronoi_boundary.lo - padding)..(voronoi_boundary.hi + padding) :
                         x % 2 = 1}
    IN  VoronoiCell(point_idx, voronoi_teams, CornerPoints(voronoi_boundary), universe)
            \cap Geom(voronoi_boundary)

\* the leagues with a team whose clipped cell is not empty
CellLeagues ==
    {voronoi_teams[i].league :
        i \in {k \in 1..Len(voronoi_teams) : ClippedCell(k) # {}}}

MaxAddressTeams == 2

\* Largest value of --api-retries.
MaxApiRetries == 1

\* Threads: worker number i is i.
MainThread == -1

\* the value of _cache_lock when no thread owns it
Unlocked == 0

\* None where the value is otherwise a list of parts: a missing address, no
\* postcode, no result
Nothing == <<>>

Postcodes == {"AB1 2CD"}

\* addresses of the teams: without a postcode, with one, a bare postcode
Addresses == { <<"1 High St">>, <<"1 High St", "AB1 2CD">>, <<"AB1 2CD">> }

\* re.search(postcode_pattern, address): the first postcode in the address
extract_uk_postcode(address) ==
    IF \E k \in 1..Len(address) : address[k] \in Postcodes
    THEN << address[CHOOSE k \in 1..Len(address) :
                        /\ address[k] \in Postcodes
                        /\ \A j \in 1..(k - 1) : address[j] \notin Postcodes] >>
    ELSE Nothing

\* the teams an address file can list
AddressTeams ==
    {[address |-> a, error |-> None] : a \in Addresses \cup {Nothing}}
        \cup {[address |-> <<"1 High St">>, error |-> "fetch_failed"]}

Responses == {"200", "200 []", "429", "503", "500", "exception"}

retry_statuses == {"503", "429"}

\* a worker as submitted by executor.submit(process_team, team, api_retries)
Submitted ==
    [pc |-> "process_team", attempt |-> 0, q |-> Nothing, requests |-> 0,
     fallbacks |-> 0, status |-> None, coords |-> Nothing, error |-> None]

\* load_cache() and the submit loop of process_address_file
GeocodeInit ==
    /\ address_data \in UNION {[1..n -> AddressTeams] : n \in 1..MaxAddressTeams}
    /\ api_retries \in 0..MaxApiRetries
    /\ cache_file \in { <<>>, << << <<"1 High St">>, <<"1 High St">> >> >> }
    /\ geocode_cache = cache_file
    /\ _address_cache_dirty = FALSE
    /\ _cache_lock = Unlocked
    /\ futures_to_idx = [i \in 1..Len(address_data) |-> Submitted]
    /\ force = FALSE
    /\ address_dirty = FALSE
    /\ completed = FALSE
    /\ pc = "as_completed"
    /\ NoVoronoi
    /\ NoMaps
    /\ NoFetching

Future(i) == futures_to_idx[i]

Become(i, worker) == futures_to_idx' = [futures_to_idx EXCEPT ![i] = worker]

\* "return None, log_lines" and the rest of process_team
ReturnNone(worker) ==
    [worker EXCEPT !.pc = "returned", !.coords = Nothing, !.error = "geocoding_failed"]

\* "continue" after the back-off sleep
Continue(worker) == [worker EXCEPT !.pc = "request", !.attempt = @ + 1]

\* process_team up to the call of geocode_with_nominatim
ProcessTeam(i) ==
    /\ Future(i).pc = "process_team"
    /\ LET team == address_data[i]
       IN  IF team.error # None
           THEN Become(i, [Future(i) EXCEPT !.pc = "returned", !.error = team.error])
           ELSE IF team.address = Nothing
           THEN Become(i, [Future(i) EXCEPT !.pc = "returned", !.error = "no_address"])
           ELSE Become(i, [Future(i) EXCEPT !.pc = "cache_get"])
    /\ UNCHANGED beside_geocode
    /\ UNCHANGED <<geocode_cache, _address_cache_dirty, cache_file, _cache_lock,
                   address_data, api_retries, force, address_dirty, completed, pc>>

\* CacheGet that never finds the address
CacheGet_Miss(i) ==
    /\ Future(i).pc = "cache_get"
    /\ _cache_lock = Unlocked
    /\ Become(i, [Future(i) EXCEPT !.pc = "request", !.q = address_data[i].address])
    /\ UNCHANGED beside_geocode
    /\ UNCHANGED <<geocode_cache, _address_cache_dirty, cache_file, _cache_lock,
                   address_data, api_retries, force, address_dirty, completed, pc>>

\* "with _cache_lock: cached = geocode_cache.get(address)" and "if cached"
CacheGet(i) ==
    /\ Future(i).pc = "cache_get"
    /\ _cache_lock = Unlocked
    /\ LET address == address_data[i].address
           cached == Get(geocode_cache, address, Nothing)
       IN  IF cached # Nothing
           THEN Become(i, [Future(i) EXCEPT !.pc = "returned", !.coords = cached])
           ELSE Become(i, [Future(i) EXCEPT !.pc = "request", !.q = address])
    /\ UNCHANGED beside_geocode
    /\ UNCHANGED <<geocode_cache, _address_cache_dirty, cache_file, _cache_lock,
                   address_data, api_retries, force, address_dirty, completed, pc>>

\* one turn of "for attempt in range(max_retries + 1)" up to the first
\* response
Request(i) ==
    /\ Future(i).pc = "request"
    /\ \E response \in Responses :
           LET address == address_data[i].address
               postcode == extract_uk_postcode(address)
               sent == [Future(i) EXCEPT !.requests = @ + 1, !.status = response]
           IN  Become(i,
                   IF response = "200"
                   THEN [sent EXCEPT !.pc = "store", !.coords = sent.q]
                   ELSE IF response = "200 []"
                   THEN IF sent.q = address /\ postcode # Nothing
                        THEN [sent EXCEPT !.pc = "fallback", !.q = postcode]
                        ELSE ReturnNone(sent)
                   ELSE IF response \in retry_statuses /\ sent.attempt < api_retries
                   THEN Continue(sent)
                   ELSE IF response = "exception" /\ sent.attempt < api_retries
                   THEN Continue(sent)
                   ELSE ReturnNone(sent))
    /\ UNCHANGED beside_geocode
    /\ UNCHANGED <<geocode_cache, _address_cache_dirty, cache_file, _cache_lock,
                   address_data, api_retries, force, address_dirty, completed, pc>>

\* the request with params["q"] = postcode
Fallback(i) ==
    /\ Future(i).pc = "fallback"
    /\ \E response \in Responses :
           LET sent == [Future(i) EXCEPT !.requests = @ + 1, !.fallbacks = @ + 1,
                                         !.status = response]
           IN  Become(i,
                   IF response = "200"
                   THEN [sent EXCEPT !.pc = "store", !.coords = sent.q]
                   ELSE IF response = "exception" /\ sent.attempt < api_retries
                   THEN Continue(sent)
                   ELSE ReturnNone(sent))
    /\ UNCHANGED beside_geocode
    /\ UNCHANGED <<geocode_cache, _address_cache_dirty, cache_file, _cache_lock,
                   address_data, api_retries, force, address_dirty, completed, pc>>

\* "with _cache_lock:" ahead of the insertion
AcquireCacheLock(i) ==
    /\ Future(i).pc = "store"
    /\ _cache_lock = Unlocked
    /\ _cache_lock' = i
    /\ Become(i, [Future(i) EXCEPT !.pc = "insert"])
    /\ UNCHANGED beside_geocode
    /\ UNCHANGED <<geocode_cache, _address_cache_dirty, cache_file,
                   address_data, api_retries, force, address_dirty, completed, pc>>

\* "geocode_cache[address] = result" and the end of the with block
Insert(i) ==
    /\ Future(i).pc = "insert"
    /\ geocode_cache' = Put(geocode_cache, address_data[i].address, Future(i).coords)
    /\ _cache_lock' = Unlocked
    /\ Become(i, [Future(i) EXCEPT !.pc = "mark_dirty"])
    /\ UNCHANGED beside_geocode
    /\ UNCHANGED <<_address_cache_dirty, cache_file,
                   address_data, api_retries, force, address_dirty, completed, pc>>

\* _mark_address_cache_dirty that leaves the flag alone
_mark_address_cache_dirty_Noop == UNCHANGED _address_cache_dirty

_mark_address_cache_dirty == _address_cache_dirty' = TRUE

\* _mark_address_cache_dirty() and "return result, log_lines"
MarkDirty(i) ==
    /\ Future(i).pc = "mark_dirty"
    /\ _mark_address_cache_dirty
    /\ Become(i, [Future(i) EXCEPT !.pc = "returned"])
    /\ UNCHANGED beside_geocode
    /\ UNCHANGED <<geocode_cache, cache_file, _cache_lock,
                   address_data, api_retries, force, address_dirty, completed, pc>>

AllReturned == \A i \in 1..Len(futures_to_idx) : Future(i).pc = "returned"

\* the main thread calls flush_cache() while workers are running
EarlyFlush ==
    /\ pc = "as_completed"
    /\ ~AllReturned
    /\ pc' = "flush_cache"
    /\ force' = FALSE
    /\ UNCHANGED beside_geocode
    /\ UNCHANGED <<geocode_cache, _address_cache_dirty, cache_file, _cache_lock,
                   address_data, api_retries, futures_to_idx, address_dirty, completed>>

\* every future has completed: the finally clause of process_address_file
\* calls flush_cache(), a handler of main calls flush_cache(force=True)
Completed ==
    /\ pc = "as_completed"
    /\ AllReturned
    /\ pc' = "flush_cache"
    /\ force' \in BOOLEAN
    /\ completed' = TRUE
    /\ UNCHANGED beside_geocode
    /\ UNCHANGED <<geocode_cache, _address_cache_dirty, cache_file, _cache_lock,
                   address_data, api_retries, futures_to_idx, address_dirty>>

\* flush_cache: the block "with _cache_dirty_lock"
FlushCacheDirty ==
    /\ pc = "flush_cache"
    /\ address_dirty' = (_address_cache_dirty \/ force)
    /\ _address_cache_dirty' = FALSE
    /\ pc' = IF address_dirty' THEN "with_cache_lock" ELSE "flush_return"
    /\ UNCHANGED beside_geocode
    /\ UNCHANGED <<geocode_cache, cache_file, _cache_lock,
                   address_data, api_retries, futures_to_idx, force, completed>>

\* FlushCacheLock that does not wait for the lock
FlushCacheLock_NoWait ==
    /\ pc = "with_cache_lock"
    /\ _cache_lock' = IF _cache_lock = Unlocked THEN MainThread ELSE _cache_lock
    /\ pc' = "save_cache"
    /\ UNCHANGED beside_geocode
    /\ UNCHANGED <<geocode_cache, _address_cache_dirty, cache_file,
                   address_data, api_retries, futures_to_idx, force, address_dirty,
                   completed>>

\* flush_cache: "with _cache_lock:" ahead of save_cache()
FlushCacheLock ==
    /\ pc = "with_cache_lock"
    /\ _cache_lock = Unlocked
    /\ _cache_lock' = MainThread
    /\ pc' = "save_cache"
    /\ UNCHANGED beside_geocode
    /\ UNCHANGED <<geocode_cache, _address_cache_dirty, cache_file,
                   address_data, api_retries, futures_to_idx, force, address_dirty,
                   completed>>

\* save_cache() and the end of the with block
SaveCache ==
    /\ pc = "save_cache"
    /\ cache_file' = geocode_cache
    /\ _cache_lock' = IF _cache_lock = MainThread THEN Unlocked ELSE _cache_lock
    /\ pc' = "flush_return"
    /\ UNCHANGED beside_geocode
    /\ UNCHANGED <<geocode_cache, _address_cache_dirty,
                   address_data, api_retries, futures_to_idx, force, address_dirty,
                   completed>>

\* flush_cache returns to its caller
FlushReturn ==
    /\ pc = "flush_return"
    /\ pc' = IF completed THEN "flushed" ELSE "as_completed"
    /\ UNCHANGED beside_geocode
    /\ UNCHANGED geocode_vars

GeocodeNext ==
    \/ \E i \in 1..Len(address_data) : ProcessTeam(i)
    \/ \E i \in 1..Len(address_data) : CacheGet(i)
    \/ \E i \in 1..Len(address_data) : Request(i)
    \/ \E i \in 1..Len(address_data) : Fallback(i)
    \/ \E i \in 1..Len(address_data) : AcquireCacheLock(i)
    \/ \E i \in 1..Len(address_data) : Insert(i)
    \/ \E i \in 1..Len(address_data) : MarkDirty(i)
    \/ EarlyFlush
    \/ Completed
    \/ FlushCacheDirty
    \/ FlushCacheLock
    \/ SaveCache
    \/ FlushReturn

GeocodeSpec == GeocodeInit /\ [][GeocodeNext]_vars

\* C23: when the address is in geocode_cache, geocode_with_nominatim returns
\* the cached result without a request to Nominatim, without a change of
\* the cache and without setting the dirty flag.
C23_CacheHit ==
    [][\A i \in 1..Len(address_data) :
           (/\ Future(i).pc = "cache_get"
            /\ Has(geocode_cache, address_data[i].address)
            /\ futures_to_idx'[i] # futures_to_idx[i])
           => /\ futures_to_idx'[i].pc = "returned"
              /\ futures_to_idx'[i].coords =
                     Get(geocode_cache, address_data[i].address, Nothing)
              /\ futures_to_idx'[i].error = None
              /\ futures_to_idx'[i].requests = 0
              /\ geocode_cache' = geocode_cache
              /\ _address_cache_dirty' = _address_cache_dirty]_vars

\* two teams at one address: the second worker has stored the result of its
\* one request, the first has returned it from the cache without a request
C23_Witness ==
    /\ Len(address_data) = 2
    /\ address_data[1].address = address_data[2].address
    /\ cache_file = <<>>
    /\ Future(2).pc = "returned" /\ Future(2).requests = 1
    /\ Future(1).pc = "returned" /\ Future(1).requests = 0
    /\ Future(1).coords # Nothing
    /\ Future(1).coords = Future(2).coords
    /\ Has(geocode_cache, address_data[1].address)

\* C27: in every interleaving of the workers (insert into geocode_cache,
\* then set the dirty flag) with calls of flush_cache, once all workers have
\* finished and a following flush_cache() has returned, every inserted
\* entry is in the saved file and the dirty flag is false; the file is
\* never written while a worker is mutating the cache.
C27_NoLostWrite ==
    /\ pc = "flushed" =>
           /\ AllReturned
           /\ cache_file = geocode_cache
           /\ ~_address_cache_dirty
    /\ \A i \in 1..Len(address_data) :
           ~(pc = "save_cache" /\ Future(i).pc = "insert")

\* both workers have stored a result; a flush_cache() that began while a
\* worker was running has saved both, the call after the last worker found
\* the flag down and saved nothing
C27_Witness ==
    /\ pc = "flushed"
    /\ ~force /\ ~address_dirty
    /\ Len(address_data) = 2
    /\ address_data[1].address # address_data[2].address
    /\ \A i \in 1..2 : Future(i).requests >= 1 /\ Future(i).coords # Nothing
    /\ Len(geocode_cache) = 2
    /\ cache_file = geocode_cache

\* C28: with max_retries = n, geocode_with_nominatim makes at most n+1 loop
\* attempts and sends at most n+2 requests, the postcode request at most
\* once.
C28_Claimed ==
    \A i \in 1..Len(address_data) :
        /\ Future(i).attempt + 1 <= api_retries + 1
        /\ Future(i).requests <= api_retries + 2
        /\ Future(i).fallbacks <= 1

(***************************************************************************)
(* fetch_addresses.py: main hands the league files to process_league_file  *)
(* one after the other; process_league_file submits one fetch_club_address *)
(* task per club to a thread pool and consumes the futures as they         *)
(* complete.                                                               *)
(*                                                                         *)
(* A team of a league file is its name, a list of words; a club name       *)
(* likewise.  An address is a string.  futures_to_club is the list of the  *)
(* futures in submission order, each with its club, its state (pending,    *)
(* running, finished, cancelled), the outcome of fetch_club_address (an    *)
(* address, None, or the exception it raised) and whether as_completed has *)
(* handed it to the loop.  team_results is the function from the filled    *)
(* positions of the list to their entries; the other positions hold None.  *)
(* output_files maps the number of a league file to the teams written to   *)
(* team_addresses/<season>/<name>.                                         *)
(***************************************************************************)
\* Largest number of teams in the first league file.
MaxLeagueTeams == 3

TeamNames == { <<"Bath">>, <<"Bath", "II">>, <<"Wells">>, <<"Frome">>, <<"TBC">> }

\* the address a club page shows
PageAddress == "1 High St"

\* the output of an earlier run
ExistingOutput == << [name |-> <<"Bath">>, address |-> "9 Old Rd"] >>

\* what a call of fetch_club_address can end in
Outcomes == {PageAddress, None, "AntiBotDetectedError", "Exception"}

\* team_name.startswith(prefix), word by word
StartsWith(team_name, prefix) ==
    /\ Len(team_name) >= Len(prefix)
    /\ \A k \in 1..Len(prefix) : team_name[k] = prefix[k]

\* team_name.startswith("To be arranged") or team_name.startswith("TBC")
IsPlaceholder(team_name) ==
    StartsWith(team_name, <<"To", "be", "arranged">>) \/ StartsWith(team_name, <<"TBC">>)

\* the club of a team: the name without a last word II, III or IV
team_name_to_club_name(team_name) ==
    IF Len(team_name) >= 1 /\ team_name[Len(team_name)] \in {"II", "III", "IV"}
    THEN SubSeq(team_name, 1, Len(team_name) - 1)
    ELSE team_name

create_team_address(address, team) == [name |-> team, address |-> address]

\* team_results[idx] = entry
Store(results, idx, entry) ==
    [i \in DOMAIN results \cup {idx} |-> IF i = idx THEN entry ELSE results[i]]

\* AlreadySubmitted that finds no club
AlreadySubmitted_Never(club_name, club_futures) == FALSE

\* "club_name in club_futures"
AlreadySubmitted(club_name, club_futures) == InList(club_name, club_futures)

\* executor.submit(fetch_club_address, club_name, ...)
NewFuture(club_name) ==
    [club |-> club_name, state |-> "pending", outcome |-> None, yielded |-> FALSE]

RECURSIVE SubmitLoop(_, _, _)
\* "for idx, team in enumerate(teams)": acc holds team_results,
\* club_dependents, the keys of club_futures and futures_to_club
SubmitLoop(idx, teams, acc) ==
    IF idx > Len(teams) THEN acc
    ELSE LET team == teams[idx]
             club_name == team_name_to_club_name(team)
             cached_address == Get(club_cache, club_name, None)
             dependents == AppendTo(acc.club_dependents, club_name, <<idx, team>>)
         IN  SubmitLoop(idx + 1, teams,
                 IF IsPlaceholder(team) THEN acc
                 ELSE IF cached_address # None
                 THEN [acc EXCEPT !.team_results =
                                      Store(@, idx, create_team_address(cached_address, team))]
                 ELSE IF AlreadySubmitted(club_name, acc.club_futures)
                 THEN [acc EXCEPT !.club_dependents = dependents]
                 ELSE [acc EXCEPT !.club_dependents = dependents,
                                  !.club_futures = Append(@, club_name),
                                  !.futures_to_club = Append(@, NewFuture(club_name))])

\* load_cache() and the list of league files; some outputs exist already
FetchInit ==
    /\ \E teams \in UNION {[1..n -> TeamNames] : n \in 1..MaxLeagueTeams} :
           league_files = <<teams, << <<"Wells">>, <<"Wells", "II">> >> >>
    /\ output_files \in { <<>>, << <<1, ExistingOutput>> >>, << <<2, ExistingOutput>> >> }
    /\ club_cache_file \in { <<>>, << << <<"Bath">>, "9 Old Rd" >> >>,
                             << << <<"Bath">>, None >> >> }
    /\ club_cache = club_cache_file
    /\ max_workers \in 1..2
    /\ file_idx = 0
    /\ futures_to_club = <<>>
    /\ club_dependents = <<>>
    /\ team_results = <<>>
    /\ pc = "main"
    /\ NoVoronoi
    /\ NoMaps
    /\ NoGeocoding

\* process_league_file: the output file exists
SkipLeagueFile ==
    /\ pc = "main"
    /\ file_idx < Len(league_files)
    /\ Has(output_files, file_idx + 1)
    /\ file_idx' = file_idx + 1
    /\ UNCHANGED beside_fetch
    /\ UNCHANGED <<club_cache, club_cache_file, league_files, output_files,
                   futures_to_club, club_dependents, team_results, max_workers, pc>>

\* process_league_file up to the as_completed loop
SubmitLeagueFile ==
    /\ pc = "main"
    /\ file_idx < Len(league_files)
    /\ ~Has(output_files, file_idx + 1)
    /\ file_idx' = file_idx + 1
    /\ LET acc == SubmitLoop(1, league_files[file_idx + 1],
                             [team_results |-> <<>>, club_dependents |-> <<>>,
                              club_futures |-> <<>>, futures_to_club |-> <<>>])
       IN  /\ team_results' = acc.team_results
           /\ club_dependents' = acc.club_dependents
           /\ futures_to_club' = acc.futures_to_club
    /\ pc' = "as_completed"
    /\ UNCHANGED beside_fetch
    /\ UNCHANGED <<club_cache, club_cache_file, league_files, output_files, max_workers>>

Running == {k \in 1..Len(futures_to_club) : futures_to_club[k].state = "running"}

Pending == {k \in 1..Len(futures_to_club) : futures_to_club[k].state = "pending"}

\* a thread of the pool takes the oldest pending task
Start(k) ==
    /\ k \in Pending
    /\ \A j \in Pending : j >= k
    /\ Cardinality(Running) < max_workers
    /\ futures_to_club' = [futures_to_club EXCEPT ![k].state = "running"]
    /\ UNCHANGED beside_fetch
    /\ UNCHANGED <<club_cache, club_cache_file, league_files, output_files, file_idx,
                   club_dependents, team_results, max_workers, pc>>

\* fetch_club_address returns or raises
Fetched(k) ==
    /\ k \in Running
    /\ \E outcome \in Outcomes :
           futures_to_club' = [futures_to_club EXCEPT ![k].state = "finished",
                                                       ![k].outcome = outcome]
    /\ UNCHANGED beside_fetch
    /\ UNCHANGED <<club_cache, club_cache_file, league_files, output_files, file_idx,
                   club_dependents, team_results, max_workers, pc>>

\* Cancel that cancels nothing
Cancel_Nothing(future) == future

\* f.cancel(): a future that has not started is cancelled, any other is
\* left as it is
Cancel(future) ==
    IF future.state = "pending" THEN [future EXCEPT !.state = "cancelled"] ELSE future

\* one turn of the as_completed loop with a result or an exception other
\* than AntiBotDetectedError
Consume(k) ==
    /\ pc = "as_completed"
    /\ futures_to_club[k].state = "finished"
    /\ ~futures_to_club[k].yielded
    /\ futures_to_club[k].outcome # "AntiBotDetectedError"
    /\ LET club_name == futures_to_club[k].club
           fetched_address == IF futures_to_club[k].outcome = "Exception" THEN None
                              ELSE futures_to_club[k].outcome
           dependents == Get(club_dependents, club_name, <<>>)
           mine == {dependents[j][1] : j \in 1..Len(dependents)}
       IN  /\ club_cache' = Put(club_cache, club_name, fetched_address)
           /\ team_results' =
                  [i \in DOMAIN team_results \cup mine |->
                      IF i \in mine
                      THEN create_team_address(fetched_address,
                               dependents[CHOOSE j \in 1..Len(dependents) :
                                              dependents[j][1] = i][2])
                      ELSE team_results[i]]
    /\ futures_to_club' = [futures_to_club EXCEPT ![k].yielded = TRUE]
    /\ UNCHANGED beside_fetch
    /\ UNCHANGED <<club_cache_file, league_files, output_files, file_idx,
                   club_dependents, max_workers, pc>>

\* the turn of the as_completed loop that meets AntiBotDetectedError:
\* cancel every future, save_cache(), raise
AntiBotDetected(k) ==
    /\ pc = "as_completed"
    /\ futures_to_club[k].state = "finished"
    /\ ~futures_to_club[k].yielded
    /\ futures_to_club[k].outcome = "AntiBotDetectedError"
    /\ futures_to_club' =
           [j \in 1..Len(futures_to_club) |->
               IF j = k THEN [futures_to_club[j] EXCEPT !.yielded = TRUE]
               ELSE Cancel(futures_to_club[j])]
    /\ club_cache_file' = club_cache
    /\ pc' = "raise"
    /\ UNCHANGED beside_fetch
    /\ UNCHANGED <<club_cache, league_files, output_files, file_idx,
                   club_dependents, team_results, max_workers>>

\* the error leaves process_league_file: finally save_cache(), the executor
\* waits for its threads, main saves the cache and returns
Abort ==
    /\ pc = "raise"
    /\ Running = {} /\ Pending = {}
    /\ club_cache_file' = club_cache
    /\ pc' = "aborted"
    /\ UNCHANGED beside_fetch
    /\ UNCHANGED <<club_cache, league_files, output_files, file_idx,
                   futures_to_club, club_dependents, team_results, max_workers>>

RECURSIVE Filled(_, _)
\* [r for r in team_results if r], from position idx on
Filled(results, idx) ==
    IF \A i \in DOMAIN results : i < idx THEN <<>>
    ELSE IF idx \in DOMAIN results THEN <<results[idx]>> \o Filled(results, idx + 1)
    ELSE Filled(results, idx + 1)

\* the as_completed loop has ended: finally save_cache(), then the output
\* file is written
WriteOutput ==
    /\ pc = "as_completed"
    /\ \A k \in 1..Len(futures_to_club) : futures_to_club[k].yielded
    /\ club_cache_file' = club_cache
    /\ output_files' = Put(output_files, file_idx, Filled(team_results, 1))
    /\ pc' = "main"
    /\ UNCHANGED beside_fetch
    /\ UNCHANGED <<club_cache, league_files, file_idx,
                   futures_to_club, club_dependents, team_results, max_workers>>

\* main after the last league file
Complete ==
    /\ pc = "main"
    /\ file_idx = Len(league_files)
    /\ pc' = "complete"
    /\ UNCHANGED beside_fetch
    /\ UNCHANGED fetch_vars

FetchNext ==
    \/ SkipLeagueFile
    \/ SubmitLeagueFile
    \/ \E k \in 1..Len(futures_to_club) : Start(k)
    \/ \E k \in 1..Len(futures_to_club) : Fetched(k)
    \/ \E k \in 1..Len(futures_to_club) : Consume(k)
    \/ \E k \in 1..Len(futures_to_club) : AntiBotDetected(k)
    \/ Abort
    \/ WriteOutput
    \/ Complete

FetchSpec == FetchInit /\ [][FetchNext]_vars

\* the teams of the league file under way
CurrentTeams == league_files[file_idx]

\* the as_completed loop has consumed every future of the league file
AllConsumed ==
    /\ pc = "as_completed"
    /\ \A k \in 1..Len(futures_to_club) : futures_to_club[k].yielded

NotPlaceholder(team_name) == ~IsPlaceholder(team_name)

\* C29: within one run of process_league_file at most one fetch_club_address
\* task is submitted for a club, and only for the club of a team that is
\* not a placeholder and has no cached address; when all tasks have
\* completed, every team that is not a placeholder has the entry at its
\* input position, with its own name and the address of its club, the same
\* for all suffix variants, and a placeholder has none; the file written
\* lists these entries in input order.
C29_OneFetchPerClub ==
    /\ pc = "as_completed" =>
           /\ \A j, k \in 1..Len(futures_to_club) :
                  j # k => futures_to_club[j].club # futures_to_club[k].club
           /\ \A k \in 1..Len(futures_to_club) :
                  /\ Get(club_cache_file, futures_to_club[k].club, None) = None
                  /\ \E i \in 1..Len(CurrentTeams) :
                         /\ NotPlaceholder(CurrentTeams[i])
                         /\ team_name_to_club_name(CurrentTeams[i]) = futures_to_club[k].club
    /\ AllConsumed =>
           \A i \in 1..Len(CurrentTeams) :
               IF IsPlaceholder(CurrentTeams[i])
               THEN i \notin DOMAIN team_results
               ELSE /\ i \in DOMAIN team_results
                    /\ team_results[i].name = CurrentTeams[i]
                    /\ team_results[i].address =
                           Get(club_cache, team_name_to_club_name(CurrentTeams[i]), None)
                    /\ \A j \in 1..Len(CurrentTeams) :
                           (/\ NotPlaceholder(CurrentTeams[j])
                            /\ team_name_to_club_name(CurrentTeams[j])
                                   = team_name_to_club_name(CurrentTeams[i]))
                           => /\ j \in DOMAIN team_results
                              /\ team_results[j].address = team_results[i].address
    /\ (pc = "main" /\ file_idx >= 1
            /\ Get(output_files, file_idx, <<>>) # ExistingOutput) =>
           LET written == Get(output_files, file_idx, <<>>)
           IN  [i \in 1..Len(written) |-> written[i].name]
                   = SelectSeq(CurrentTeams, NotPlaceholder)

\* a placeholder, a first team and a second team of one club: one task has
\* fetched the address and both teams carry it at positions 2 and 3
C29_Witness ==
    /\ AllConsumed
    /\ file_idx = 1
    /\ CurrentTeams = << <<"TBC">>, <<"Bath">>, <<"Bath", "II">> >>
    /\ Len(futures_to_club) = 1
    /\ futures_to_club[1].outcome = PageAddress
    /\ DOMAIN team_results = {2, 3}
    /\ team_results[2].address = PageAddress
    /\ team_results[3].address = PageAddress

\* C30 as stated: after the abort every future that the loop has not
\* consumed is cancelled.
C30_Claimed ==
    pc = "aborted" =>
        \A k \in 1..Len(futures_to_club) :
            futures_to_club[k].yielded \/ futures_to_club[k].state = "cancelled"

\* the state once AntiBotDetectedError has reached the as_completed loop
AbortState ==
    /\ \E k \in 1..Len(futures_to_club) :
           /\ futures_to_club[k].yielded
           /\ futures_to_club[k].outcome = "AntiBotDetectedError"
    /\ Pending = {}
    /\ club_cache_file = club_cache
    /\ \A k \in 1..Len(futures_to_club) :
           IF futures_to_club[k].yielded
           THEN futures_to_club[k].outcome = PageAddress =>
                    Get(club_cache_file, futures_to_club[k].club, None) = PageAddress
           ELSE Get(club_cache, futures_to_club[k].club, None) = None
    /\ ~Has(output_files, file_idx)
    /\ \A j \in (file_idx + 1)..Len(league_files) :
           Has(output_files, j) => Get(output_files, j, <<>>) = ExistingOutput
    /\ pc = "aborted" => Running = {}

\* the steps after the error and the step over a league file whose output
\* exists
AbortStep ==
    /\ pc \in {"raise", "aborted"} =>
           /\ pc' \in {"raise", "aborted"}
           /\ file_idx' = file_idx
           /\ output_files' = output_files
           /\ club_cache' = club_cache
           /\ \A k \in 1..Len(futures_to_club) :
                  futures_to_club'[k].state = "running" =>
                      futures_to_club[k].state = "running"
    /\ (pc = "main" /\ file_idx < Len(league_files)
            /\ Has(output_files, file_idx + 1)) =>
           /\ futures_to_club' = futures_to_club
           /\ club_cache' = club_cache
           /\ output_files' = output_files
           /\ team_results' = team_results

\* C30: when a club fetch raises AntiBotDetectedError, every future that has
\* not started is cancelled and none starts afterwards, a fetch that is
\* running is left to finish and its result is dropped, the club cache with
\* the addresses consumed so far is saved, no output file is written for
\* the league and main processes no further league file; a league file
\* whose output exists is skipped without a fetch.
C30_AntiBotAbort ==
    /\ [](pc \in {"raise", "aborted"} => AbortState)
    /\ [][AbortStep]_vars

\* three clubs: the address of the first is consumed and saved, the fetch of
\* the second met the anti-bot page, the third was cancelled before it
\* started
C30_Witness ==
    /\ pc = "aborted"
    /\ Len(futures_to_club) = 3
    /\ futures_to_club[1].yielded /\ futures_to_club[1].outcome = PageAddress
    /\ futures_to_club[2].yielded
    /\ futures_to_club[2].outcome = "AntiBotDetectedError"
    /\ futures_to_club[3].state = "cancelled"
    /\ Get(club_cache_file, futures_to_club[1].club, None) = PageAddress
    /\ ~Has(output_files, 1) /\ ~Has(output_files, 2)

====
